---- MODULE Spec2Model ----
(***************************************************************************)
(* View-tree engine of the repository: the RepositoriesNode container      *)
(* (reconciling children against the repository collection) and the        *)
(* ViewBase search (findNode / findNodeCoreBFS / showMoreNodeChildren).     *)
(***************************************************************************)
EXTENDS Integers, Sequences, FiniteSets, TLC

(***************************************************************************)
(* Bounds of the model.                                                    *)
(***************************************************************************)
\* node instances the container may construct in one behaviour
MaxNodes == 3
\* getChildren calls that may be suspended in the repository fetch at once
MaxPending == 1
\* CommitsViewNode.getChildren calls that may be suspended in the fetch at once
MaxCalls == 2
\* largest maxDepth a caller passes to findNode
MaxDepthArg == 2
\* largest page size (advanced.maxListItems) of a paging round
MaxPageSize == 2
\* change notifications recorded in one behaviour
MaxEvents == 3
\* BranchNode instances constructed in one behaviour
MaxBranches == 2
\* ticks of the clock in one debounce window (the wait of Functions.debounce)
Window == 2
\* events a subscription delivers in one behaviour
MaxArrivals == 4
\* replacements of the root by ensureRoot(true) in one behaviour
MaxForced == 1
\* runs of ViewBase.initialize, and calls of ViewBase.dispose, in one behaviour
MaxInits == 2
\* root loads of GitExplorer, and its getChildren calls, in one behaviour
MaxLoads == 2
MaxGets == 2
\* calls of GitContextTracker._updateBlameability in one behaviour
MaxUpdates == 3

\* stable keys (Repository.normalizedPath) of the repositories
Keys == {"r1", "r2", "r3"}
\* the repositories that may be closed
Closable == {"r3"}

VARIABLES
    \* ---- RepositoriesNode and its collaborators
    children,       \* RepositoriesNode._children (Undefined, or node instances)
    nodes,          \* the node instances constructed so far (instance = index)
    subscription,   \* RepositoriesNode's subscription: "none" or "live"
    releases,       \* times the latest subscription handle was released
    pending,        \* getChildren calls suspended in the fetch (line 35)
    refreshing,     \* refresh() is suspended in the fetch (line 65)
    disposed,       \* dispose() has been called on the container (history)
    returned,       \* what the last getChildren returned (history, see Forget)
    last,           \* what the last completed operation did (history)
    resub,          \* what the last refresh or dispose did to the subscription (history)
    \* ---- ViewBase and the tree it searches
    root,           \* ViewBase._root (NoNode until ensureRoot creates it)
    limit,          \* PageableViewNode.limit of every pageable node
    lastKnownLimits,\* ViewBase._lastKnownLimits (0 = no entry for the id)
    pc,             \* findNode: "idle", "loop", "paging" or "done"
    opts,           \* findNode: the arguments of the call in progress
    token,          \* findNode: the token now: "none", "live", "cancelled"
    queue,          \* findNodeCoreBFS: queue
    depth,          \* findNodeCoreBFS: depth
    paging,         \* findNodeCoreBFS: node, while its paging loop runs
    result,         \* what findNode resolved to
    called,         \* nodes whose getChildren ran during the call (history)
    showMores,      \* showMore calls of the call (history)
    late,           \* a showMore ran on a window holding the match (history)
    start,          \* limit and lastKnownLimits when the call began (history)
    failed,         \* the call that threw during the search, or "none" (history)
    \* ---- ViewBase change notifications
    events,         \* payloads fired on _onDidChangeTreeData (NoNode = whole tree)
    rn,             \* the refreshNode call in progress
    vr,             \* the ViewBase.refresh call in progress
    \* ---- ViewBase.showMoreNodeChildren / resetNodeLastKnownLimit
    sm,             \* the showMoreNodeChildren call in progress
    lk,             \* the last operation on _lastKnownLimits (history)
    \* ---- CommitsViewNode and its CommitsRepositoryNode children
    cvChildren,     \* CommitsViewNode.children (Undefined, or node instances)
    cvNodes,        \* the CommitsRepositoryNode instances constructed so far
    cvPending,      \* CommitsViewNode.getChildren calls suspended in the fetch
    cvAwaiting,     \* instances whose getChildren is suspended in getBranch
    cvBranches,     \* BranchNode instances constructed so far
    cvLast,         \* what the last completed operation did (history)
    \* ---- ViewBase as the host's data provider
    host,           \* the last getChildren / getTreeItem call of the host (history)
    tree,           \* ViewBase._tree exists (initialize has created it)
    rv,             \* the reveal call in progress
    roots,          \* calls of the getRoot factory so far: the instance in _root
    forced,         \* ensureRoot(true) calls that replaced a root (history)
    disposable,     \* ViewBase._disposable: the tree view and its listeners
    \* ---- the subscriptions of RepositoriesNode.subscribe
    timer,          \* ticks until the debounced handler runs (0 = no timer)
    since,          \* ticks since the last active-editor event, up to Window (history)
    arrivals,       \* active-editor events delivered so far (history)
    bursts,         \* bursts of active-editor events begun so far (history)
    runs,           \* runs of onActiveEditorChanged so far (history)
    lastRun,        \* when onActiveEditorChanged last ran (history)
    direct,         \* runs of onRepositoriesChanged so far (history)
    \* ---- GitExplorer and its root loads
    geRoot,         \* GitExplorer._root: 0 (undefined) or the load that made it
    geLoading,      \* GitExplorer._loading: 0 (undefined) or the load it follows
    geLoads,        \* the root loads started so far
    geCalls,        \* the getChildren calls of GitExplorer so far
    \* ---- GitContextTracker
    isBlameable,    \* GitContextTracker._isBlameable
    updates         \* the _updateBlameability calls so far (history)

reposVars == <<children, nodes, subscription, releases, pending,
               refreshing, disposed, returned, last, resub>>

findVars == <<root, limit, lastKnownLimits, pc, opts, token, queue, depth,
              paging, result, called, showMores, late, start, failed>>

\* findVars without the root
searchVars == <<limit, lastKnownLimits, pc, opts, token, queue, depth,
                paging, result, called, showMores, late, start, failed>>

notifyVars == <<events, rn, vr>>

limitsVars == <<sm, lk>>

commitsVars == <<cvChildren, cvNodes, cvPending, cvAwaiting, cvBranches, cvLast>>

hostVars == <<host, tree, rv, roots, forced, disposable>>

debounceVars == <<timer, since, arrivals, bursts, runs, lastRun, direct>>

explorerVars == <<geRoot, geLoading, geLoads, geCalls>>
trackerVars == <<isBlameable, updates>>

vars == <<reposVars, findVars, notifyVars, limitsVars, commitsVars, hostVars,
          debounceVars, explorerVars, trackerVars>>

----------------------------------------------------------------------------
(***************************************************************************)
(* Data                                                                    *)
(***************************************************************************)
\* `this._children === undefined`; instances are numbered from 1
Undefined == <<0>>

\* the indexes the data source assigns to the repositories K: distinct
Indexes(K) ==
    {f \in [K -> 0..(Cardinality(K) - 1)] : \A a, b \in K : a # b => f[a] # f[b]}

\* every collection Container.git.getRepositories() may resolve to
Collections ==
    UNION {{{[normalizedPath |-> k, index |-> f[k], closed |-> (k \in C)] : k \in K} :
                f \in Indexes(K), C \in SUBSET (K \cap Closable)} : K \in SUBSET Keys}

\* the comparator reversed: (a, b) => b.index - a.index
RECURSIVE SortByIndexReversed(_)
SortByIndexReversed(S) ==
    IF S = {} THEN <<>>
    ELSE LET m == CHOOSE r \in S : \A o \in S : r.index >= o.index
         IN  <<m>> \o SortByIndexReversed(S \ {m})

\* repositories.sort((a, b) => a.index - b.index)
RECURSIVE SortByIndex(_)
SortByIndex(S) ==
    IF S = {} THEN <<>>
    ELSE LET m == CHOOSE r \in S : \A o \in S : r.index <= o.index
         IN  <<m>> \o SortByIndex(S \ {m})

\* new RepositoryNode(GitUri.fromRepoPath(repo.path), repo, this, this.view)
RepositoryNode(repo) ==
    [kind |-> "repository", key |-> repo.normalizedPath, disposeCalls |-> 0,
     sub |-> "none"]

\* new MessageNode(this, 'No repositories found')
MessageNode ==
    [kind |-> "message", key |-> "No repositories found", disposeCalls |-> 0,
     sub |-> "none"]

Range(s) == {s[i] : i \in 1..Len(s)}

\* the history record of a completed operation: `sawEmpty` tells that the
\* collection it fetched was empty, `index` is the index of each key of the
\* collection a reconciling refresh fetched; `pre` is _children before it, `prev` the return of the getChildren
\* call before it, `refreshed` the instances it refreshed, `firstNew` the first
\* instance it constructed, `emitted` the change notifications it fired,
\* `before` the refresh that completed immediately before it (if any)
NoRefresh == [refresh |-> FALSE, sawEmpty |-> FALSE, emitted |-> 0]

Did(op, outcome, sawEmpty, index, pre, prev, refreshed, firstNew, emitted, before) ==
    [op |-> op, outcome |-> outcome, sawEmpty |-> sawEmpty, index |-> index,
     pre |-> pre, prev |-> prev, refreshed |-> refreshed, firstNew |-> firstNew,
     emitted |-> emitted, before |-> before]

IndexOf(S) ==
    [k \in {r.normalizedPath : r \in S} |->
        (CHOOSE r \in S : r.normalizedPath = k).index]

NoIndex == IndexOf({})

Idle == Did("none", "none", FALSE, NoIndex, Undefined, Undefined, {}, 0, 0, NoRefresh)

----------------------------------------------------------------------------
(***************************************************************************)
(* Subscriptions (SubscribeableViewNode)                                   *)
(***************************************************************************)
\* SubscribeableViewNode.unsubscribe: release the handle if there is one
Unsubscribe(s) ==
    IF s.subscription = "live"
    THEN [subscription |-> "none", releases |-> s.releases + 1]
    ELSE s

\* SubscribeableViewNode.ensureSubscription: subscribe() only when no handle
EnsureSubscription(s) ==
    IF s.subscription = "none"
    THEN [subscription |-> "live", releases |-> 0]
    ELSE s

\* SubscribeableViewNode.dispose, on a child node: its handle, if any, is released
DisposeNode(n) ==
    [n EXCEPT !.disposeCalls = @ + 1,
              !.sub = IF @ = "live" THEN "released" ELSE @]

----------------------------------------------------------------------------
(***************************************************************************)
(* RepositoriesNode                                                        *)
(***************************************************************************)
DisposeChildrenSkipped(ch, ns) == ns

\* dispose(), lines 23-30: child.dispose() for each RepositoryNode child
DisposeChildren(ch, ns) ==
    IF ch = Undefined THEN ns
    ELSE [i \in 1..Len(ns) |->
            IF i \in Range(ch) /\ ns[i].kind = "repository"
            THEN DisposeNode(ns[i]) ELSE ns[i]]

\* dispose() without its first statement
DisposeSuperSkipped(s) == s

\* dispose(), line 21: super.dispose()
DisposeSuper(s) == Unsubscribe(s)

\* dispose(), line 29: this._children = undefined
ChildrenAfterDispose(ch) == Undefined

\* getChildren(), lines 38-45: one RepositoryNode per open repository, by index
RECURSIVE LoadChildren(_, _)
LoadChildren(rs, acc) ==
    IF rs = <<>> THEN acc
    ELSE IF Head(rs).closed THEN LoadChildren(Tail(rs), acc)
    ELSE LoadChildren(Tail(rs),
            [children |-> Append(acc.children, Len(acc.nodes) + 1),
             nodes |-> Append(acc.nodes, RepositoryNode(Head(rs)))])

FindChildFirst(ch, ns, path) == IF Len(ch) = 0 THEN 0 ELSE ch[1]

\* refresh(), line 76: this._children.find(c => c.repo.normalizedPath === path);
\* 0 when no child matches
FindChild(ch, ns, path) ==
    LET hits == {i \in 1..Len(ch) : ns[ch[i]].key = path}
    IN  IF hits = {} THEN 0
        ELSE ch[CHOOSE i \in hits : \A j \in hits : i <= j]

\* refresh(), line 76: the find callback reads c.repo.normalizedPath of every
\* child up to the match; a MessageNode has no repo, and undefined has no find
FindThrows(ch, ns, path) ==
    \/ ch = Undefined
    \/ \E i \in 1..Len(ch) :
          /\ ns[ch[i]].kind = "message"
          /\ \A j \in 1..(i - 1) : ns[ch[j]].key # path

\* refresh(), lines 73-84: keep the matching child (and refresh it) or
\* construct a new RepositoryNode, in index order
RECURSIVE Reconcile(_, _, _, _)
Reconcile(rs, ch, ns, acc) ==
    IF rs = <<>> THEN acc
    ELSE LET child == FindChild(ch, ns, Head(rs).normalizedPath)
         IN  IF child # 0
             THEN Reconcile(Tail(rs), ch, ns,
                    [acc EXCEPT !.children = Append(@, child),
                                !.refreshed = @ \cup {child}])
             ELSE Reconcile(Tail(rs), ch, ns,
                    [acc EXCEPT !.children = Append(@, Len(acc.nodes) + 1),
                                !.nodes = Append(@, RepositoryNode(Head(rs)))])

\* refresh(), lines 86-90: dispose every previous child that was not kept
DisposeStale(old, kept, ns) ==
    [i \in 1..Len(ns) |->
        IF i \in Range(old) /\ i \notin Range(kept) THEN DisposeNode(ns[i]) ELSE ns[i]]

\* refresh(), lines 73-92
ReconcileChildren(S, ch, ns) ==
    LET r == Reconcile(SortByIndex(S), ch, ns,
                       [children |-> <<>>, nodes |-> ns, refreshed |-> {}])
    IN  [r EXCEPT !.nodes = DisposeStale(ch, r.children, r.nodes)]

\* refresh(), lines 63-71: which path the call takes
RefreshPath(S, ch, ns) ==
    IF S = {} /\ (ch = Undefined \/ Len(ch) = 0) THEN "noop"
    ELSE IF S = {} THEN "placeholder"
    ELSE IF \E r \in S : FindThrows(ch, ns, r.normalizedPath) THEN "threw"
    ELSE "reconciled"

\* what refresh() resolves to on every path: undefined, never `true`
RefreshCancels(path) == FALSE

\* ViewBase.refreshNode, lines 365-370: no notification when refresh rejects
\* or resolves to true, else one
NotificationsOf(path) ==
    IF path = "threw" \/ RefreshCancels(path) THEN 0 ELSE 1

Sub == [subscription |-> subscription, releases |-> releases]

\* no refresh or dispose has just acted on the subscription
NoResub == [reason |-> "-", was |-> "none", torn |-> FALSE, created |-> FALSE]

TearsDownAlways(path, reason) == reason = "ConfigurationChanged"

\* refresh, lines 95-97: reached only past the returns of lines 63-71, and
\* taken for RefreshReason.ConfigurationChanged
TearsDown(path, reason) ==
    path = "reconciled" /\ reason = "ConfigurationChanged"

ResubscribesAlways(path) == TRUE

\* refresh, line 99: reached only past the returns of lines 63-71
Resubscribes(path) == path = "reconciled"

\* refresh, lines 95-99: the subscription the refresh leaves
SubscriptionAfterRefresh(path, reason, s) ==
    LET torn == IF TearsDown(path, reason) THEN Unsubscribe(s) ELSE s
    IN  IF Resubscribes(path) THEN EnsureSubscription(torn) ELSE torn

\* an instance the container no longer references can be reached by none of
\* its operations: the model forgets its state at the next operation
Forgotten == [kind |-> "forgotten", key |-> "", disposeCalls |-> 0, sub |-> "none"]

Reachable ==
    LET held == IF children = Undefined THEN {} ELSE Range(children)
    IN  [i \in 1..Len(nodes) |-> IF i \in held THEN nodes[i] ELSE Forgotten]

\* any refresh or dispose ends the run of consecutive getChildren calls
Forget(p) == [i \in 1..Len(p) |-> Undefined]

\* the refresh that completed right before the one that is suspended
Chain == IF last.op = "none" THEN last.before ELSE NoRefresh

Before == IF last.op = "refresh"
          THEN [refresh |-> TRUE, sawEmpty |-> last.sawEmpty,
                emitted |-> last.emitted]
          ELSE NoRefresh

InitRepositories ==
    /\ children = Undefined
    /\ nodes = <<>>
    /\ subscription = "none"
    /\ releases = 0
    /\ pending = <<>>
    /\ refreshing = FALSE
    /\ disposed = FALSE
    /\ returned = Undefined
    /\ last = Idle
    /\ resub = NoResub

\* getChildren(), line 34 with a cache: return this._children
GetChildrenCached ==
    /\ UNCHANGED <<findVars, notifyVars, limitsVars, commitsVars, hostVars, debounceVars, explorerVars, trackerVars>>
    /\ resub' = NoResub
    /\ children # Undefined
    /\ returned' = children
    /\ nodes' = Reachable
    /\ last' = Did("getChildren", "cached", FALSE, NoIndex, children, returned, {}, 0, 0,
                   NoRefresh)
    /\ UNCHANGED <<children, subscription, releases, pending, refreshing, disposed>>

\* getChildren(), lines 34-35 without a cache: suspend in the fetch
GetChildrenFetch ==
    /\ UNCHANGED <<findVars, notifyVars, limitsVars, commitsVars, hostVars, debounceVars, explorerVars, trackerVars>>
    /\ resub' = NoResub
    /\ children = Undefined
    /\ Len(pending) < MaxPending
    /\ pending' = Append(pending, returned)
    /\ nodes' = Reachable
    /\ last' = Idle
    /\ UNCHANGED <<children, subscription, releases, refreshing, disposed, returned>>

\* getChildren(), lines 35-48 after the fetch resolved to S
GetChildrenResume ==
    \E c \in 1..Len(pending), S \in Collections :
    \E live \in {Reachable} :
    \E loaded \in {LoadChildren(SortByIndex(S), [children |-> <<>>, nodes |-> live])} :
        /\ pending' = [i \in 1..(Len(pending) - 1) |->
                          IF i < c THEN pending[i] ELSE pending[i + 1]]
        /\ IF S = {}
           THEN /\ nodes' = Append(live, MessageNode)
                /\ children' = children
                /\ returned' = <<Len(nodes) + 1>>
           ELSE /\ nodes' = loaded.nodes
                /\ children' = loaded.children
                /\ returned' = loaded.children
        /\ Len(nodes') <= MaxNodes
        /\ last' = Did("getChildren", "computed", S = {}, NoIndex, children, pending[c],
                       {}, Len(nodes) + 1, 0, NoRefresh)
        /\ UNCHANGED <<subscription, releases, refreshing, disposed>>
        /\ resub' = NoResub
        /\ UNCHANGED <<findVars, notifyVars, limitsVars, commitsVars, hostVars, debounceVars, explorerVars, trackerVars>>

\* getTreeItem(), lines 51-58
GetTreeItem ==
    /\ UNCHANGED <<findVars, notifyVars, limitsVars, commitsVars, hostVars, debounceVars, explorerVars, trackerVars>>
    /\ resub' = NoResub
    /\ subscription = "none"
    /\ subscription' = EnsureSubscription(Sub).subscription
    /\ releases' = EnsureSubscription(Sub).releases
    /\ nodes' = Reachable
    /\ last' = Idle
    /\ UNCHANGED <<children, pending, refreshing, disposed, returned>>

\* the host renders the children it was given: getTreeItem of each
\* RepositoryNode, which subscribes lazily (RepositoryNode.getTreeItem)
RenderChildren ==
    /\ UNCHANGED <<findVars, notifyVars, limitsVars, commitsVars, hostVars, debounceVars, explorerVars, trackerVars>>
    /\ resub' = NoResub
    /\ children # Undefined
    /\ \E i \in Range(children) : nodes[i].kind = "repository" /\ nodes[i].sub = "none"
    /\ nodes' = [i \in 1..Len(nodes) |->
                    IF Reachable[i].kind = "repository" /\ Reachable[i].sub = "none"
                    THEN [Reachable[i] EXCEPT !.sub = "live"] ELSE Reachable[i]]
    /\ last' = Idle
    /\ UNCHANGED <<children, subscription, releases, pending, refreshing,
                   disposed, returned>>

\* dispose(), lines 20-31
Dispose ==
    /\ UNCHANGED <<findVars, notifyVars, limitsVars, commitsVars, hostVars, debounceVars, explorerVars, trackerVars>>
    /\ resub' = [reason |-> "-", was |-> subscription,
                 torn |-> (subscription = "live"
                             /\ DisposeSuper(Sub).subscription = "none"),
                 created |-> FALSE]
    /\ disposed' = TRUE
    /\ subscription' = DisposeSuper(Sub).subscription
    /\ releases' = DisposeSuper(Sub).releases
    /\ nodes' = DisposeChildren(children, Reachable)
    /\ children' = ChildrenAfterDispose(children)
    /\ returned' = Undefined
    /\ pending' = Forget(pending)
    /\ last' = Did("dispose", IF disposed THEN "again" ELSE "first", FALSE, NoIndex,
                   children, Undefined, {}, 0, 0, NoRefresh)
    /\ UNCHANGED <<refreshing>>

\* ViewBase.refreshNode -> refresh(reason), line 63: nothing cached, return;
\* @gate(): one refresh at a time
RefreshUnloaded ==
    /\ UNCHANGED <<findVars, notifyVars, limitsVars, commitsVars, hostVars, debounceVars, explorerVars, trackerVars>>
    /\ resub' = NoResub
    /\ ~refreshing
    /\ children = Undefined
    /\ returned' = Undefined
    /\ pending' = Forget(pending)
    /\ last' = Did("refresh", "unloaded", FALSE, NoIndex, children, Undefined, {}, 0,
                   NotificationsOf("unloaded"), Before)
    /\ nodes' = Reachable
    /\ UNCHANGED <<children, subscription, releases, refreshing, disposed>>

\* ViewBase.refreshNode -> refresh(reason), lines 63-65: suspend in the fetch
RefreshFetch ==
    /\ UNCHANGED <<findVars, notifyVars, limitsVars, commitsVars, hostVars, debounceVars, explorerVars, trackerVars>>
    /\ resub' = NoResub
    /\ ~refreshing
    /\ children # Undefined
    /\ refreshing' = TRUE
    /\ nodes' = Reachable
    /\ last' = [Idle EXCEPT !.before = Before]
    /\ UNCHANGED <<children, subscription, releases, pending, disposed, returned>>

\* refresh(reason), lines 65-99 after the fetch resolved to S, then
\* refreshNode's notification
RefreshResume ==
    /\ UNCHANGED <<findVars, notifyVars, limitsVars, commitsVars, hostVars, debounceVars, explorerVars, trackerVars>>
    /\ refreshing
    /\ refreshing' = FALSE
    /\ \E S \in Collections, reason \in {"none", "ConfigurationChanged"} :
       \E live \in {Reachable} :
       \E path \in {RefreshPath(S, children, live)} :
       \E sub \in {SubscriptionAfterRefresh(path, reason, Sub)} :
          /\ subscription' = sub.subscription
          /\ releases' = sub.releases
          /\ resub' = [reason |-> reason, was |-> subscription,
                       torn |-> (subscription = "live" /\ TearsDown(path, reason)),
                       created |-> (subscription = "none"
                                      /\ sub.subscription = "live")]
          /\ CASE path = "placeholder" ->
                    /\ nodes' = Append(live, MessageNode)
                    /\ children' = <<Len(nodes) + 1>>
                    /\ last' = Did("refresh", path, TRUE, NoIndex, children, Undefined, {},
                                   Len(nodes) + 1, NotificationsOf(path), Chain)
               [] path = "reconciled" ->
                    \E rec \in {ReconcileChildren(S, children, live)} :
                        /\ nodes' = rec.nodes
                        /\ children' = rec.children
                        /\ last' = Did("refresh", path, FALSE, IndexOf(S),
                                       children, Undefined, rec.refreshed,
                                       Len(nodes) + 1, NotificationsOf(path), Chain)
               [] OTHER ->
                    /\ nodes' = live
                    /\ UNCHANGED <<children>>
                    /\ last' = Did("refresh", path, S = {}, NoIndex, children, Undefined,
                                   {}, Len(nodes) + 1, NotificationsOf(path), Chain)
          /\ Len(nodes') <= MaxNodes
    /\ returned' = Undefined
    /\ pending' = Forget(pending)
    /\ UNCHANGED <<disposed>>

NextRepositories ==
    \/ GetChildrenCached
    \/ GetChildrenFetch
    \/ GetChildrenResume
    \/ GetTreeItem
    \/ RenderChildren
    \/ Dispose
    \/ RefreshUnloaded
    \/ RefreshFetch
    \/ RefreshResume

----------------------------------------------------------------------------
(***************************************************************************)
(* ViewBase.findNode over a tree of nodes                                  *)
(***************************************************************************)
\* `undefined` as a node: no root, no match, and the level marker of the queue
NoNode == "undefined"

Root == "root"

\* the complete children of every node; P and Q are pageable (their
\* getChildren shows the first `limit` of them), the others are plain
TreeChildren ==
    [n \in {"root", "A", "B", "C", "D", "E", "P", "Q",
            "p1", "p2", "p3", "q1", "q2", "x"} |->
        CASE n = "root" -> <<"A", "P", "E">>
          [] n = "A"    -> <<"B", "Q">>
          [] n = "B"    -> <<"C">>
          [] n = "C"    -> <<"D">>
          [] n = "P"    -> <<"p1", "p2", "p3">>
          [] n = "Q"    -> <<"q1", "q2">>
          [] n = "p1"   -> <<"x">>
          [] OTHER      -> <<>>]

TreeNodes == DOMAIN TreeChildren

\* PageableViewNode.is(node)
Pageable == {"P", "Q"}

Parent(n) == CHOOSE p \in TreeNodes : n \in Range(TreeChildren[p])

RECURSIVE DepthOf(_)
DepthOf(n) == IF n = Root THEN 0 ELSE 1 + DepthOf(Parent(n))

Min(a, b) == IF a < b THEN a ELSE b

\* node.getChildren(): a pageable node shows a prefix window of its items
GetChildren(n, lim) ==
    IF n \in Pageable
    THEN SubSeq(TreeChildren[n], 1, Min(lim[n], Len(TreeChildren[n])))
    ELSE TreeChildren[n]

\* node.hasMore
HasMore(n, lim) == lim[n] < Len(TreeChildren[n])

\* node.showMore(limit): the window grows by a page
ShowMore(n, lim, pageSize) ==
    [lim EXCEPT ![n] = Min(@ + pageSize, Len(TreeChildren[n]))]

SetLastKnownLimitSkipped(map, n, lim) == map

\* showMoreNodeChildren, line 447: this._lastKnownLimits.set(node.id, node.limit)
SetLastKnownLimit(map, n, lim) == [map EXCEPT ![n] = lim[n]]

\* the predicates a caller passes: n => n.id === id
Predicates == {"none", "root", "A", "C", "D", "p1", "p3", "q2", "x",
               "B|E", "p1|E"}

\* the nodes a predicate is true of: the string form compares the id (line
\* 262), the function form may be true of several nodes
Matches ==
    [p \in Predicates |->
        CASE p = "B|E"  -> {"B", "E"}
          [] p = "p1|E" -> {"p1", "E"}
          [] OTHER      -> {p}]

\* the canTraverse callbacks a caller passes (line 307: may be absent)
Traversals == {[given |-> FALSE, blocked |-> {}],
               [given |-> TRUE, blocked |-> {"A"}],
               [given |-> TRUE, blocked |-> {"P"}]}

NoOpts == [predicate |-> "none", allowPaging |-> FALSE,
           canTraverse |-> [given |-> FALSE, blocked |-> {}],
           maxDepth |-> 0, pageSize |-> 1, token |-> "none"]

\* line 306: predicate(node)
Predicate(n) == n \in Matches[opts.predicate]

CanTraverseAlways(n) == TRUE

\* lines 307-314: canTraverse(node), absent means traversable
CanTraverse(n) == ~opts.canTraverse.given \/ n \notin opts.canTraverse.blocked

FindFirst(ch) == IF Len(ch) > 0 THEN ch[1] ELSE NoNode

\* lines 320, 337: children.find(predicate)
Find(ch) ==
    IF \E i \in 1..Len(ch) : Predicate(ch[i])
    THEN ch[CHOOSE i \in 1..Len(ch) :
                /\ Predicate(ch[i])
                /\ \A j \in 1..(i - 1) : ~Predicate(ch[j])]
    ELSE NoNode

TokenIgnored(t) == FALSE

\* lines 294, 325: token?.isCancellationRequested
IsCancellationRequested(t) == t = "cancelled"

DepthExceededLate(d, maxDepth) == d > maxDepth + 1

\* line 301: if (depth > maxDepth) break
DepthExceeded(d, maxDepth) == d > maxDepth

BreaksAfterRound(n, lim) == TRUE

\* line 340: if (!node.hasMore) break
PagingEnds(n, lim) == ~HasMore(n, lim)

EnsureRootAlways(force) == roots + 1

\* ensureRoot(force), lines 164-170: the factory getRoot() is called when
\* there is no root or force is set; the result is the instance in _root
EnsureRoot(force) == IF root = NoNode \/ force THEN roots + 1 ELSE roots

InitFind ==
    /\ root = NoNode
    /\ limit = [n \in Pageable |-> 1]
    /\ lastKnownLimits = [n \in Pageable |-> 0]
    /\ pc = "idle"
    /\ opts = NoOpts
    /\ token = "none"
    /\ queue = <<>>
    /\ depth = 0
    /\ paging = NoNode
    /\ result = NoNode
    /\ called = {}
    /\ showMores = 0
    /\ late = FALSE
    /\ start = [limit |-> limit, lastKnownLimits |-> lastKnownLimits]
    /\ failed = "none"

\* findNode, lines 239-268 up to the first iteration of the search: without
\* a root, show() is awaited (the host may then ask the view for its
\* children, which creates the root and loads it) and ensureRoot() makes sure
\* the root exists; the queue of line 285 is [root, undefined]
FindNode ==
    /\ pc = "idle"
    /\ \E predicate \in Predicates, allowPaging \in BOOLEAN,
          canTraverse \in Traversals, maxDepth \in 0..MaxDepthArg,
          pageSize \in 1..MaxPageSize,
          tok \in {"none", "live", "cancelled"}, shown \in BOOLEAN :
        /\ opts' = [predicate |-> predicate, allowPaging |-> allowPaging,
                    canTraverse |-> canTraverse, maxDepth |-> maxDepth,
                    pageSize |-> pageSize, token |-> tok]
        /\ token' = tok
        /\ called' = IF root = NoNode /\ shown THEN {Root} ELSE {}
    /\ root' = Root
    /\ roots' = EnsureRoot(FALSE)
    /\ queue' = <<Root, NoNode>>
    /\ depth' = 0
    /\ pc' = "loop"
    /\ paging' = NoNode
    /\ result' = NoNode
    /\ showMores' = 0
    /\ late' = FALSE
    /\ start' = [limit |-> limit, lastKnownLimits |-> lastKnownLimits]
    /\ failed' = "none"
    /\ UNCHANGED <<limit, lastKnownLimits>>
    /\ UNCHANGED <<host, tree, rv, forced, disposable>>
    /\ UNCHANGED <<reposVars, notifyVars, limitsVars, commitsVars, debounceVars, explorerVars, trackerVars>>

\* the token of the call is cancelled while the call is suspended
Cancel ==
    /\ pc \in {"loop", "paging"}
    /\ token = "live"
    /\ token' = "cancelled"
    /\ UNCHANGED <<root, limit, lastKnownLimits, pc, opts, queue, depth,
                   paging, result, called, showMores, late, start, failed>>
    /\ UNCHANGED <<reposVars, notifyVars, limitsVars, commitsVars, hostVars, debounceVars, explorerVars, trackerVars>>

\* what one iteration of the while loop of lines 293-349 comes to
Step(nextPc, nextQueue, nextDepth, nextPaging, nextResult, nextCalled) ==
    [pc |-> nextPc, queue |-> nextQueue, depth |-> nextDepth,
     paging |-> nextPaging, result |-> nextResult, called |-> nextCalled]

EnqueuePaged(rest, ch) == rest \o ch

EnqueueFirst(rest, ch) == ch \o rest

\* line 348: queue.push(...children)
Enqueue(rest, ch) == rest \o ch

\* lines 344-345: continue, the children of a pageable node are not enqueued
AfterPageable(rest, ch) == rest

StartsPagingAlways(node, lim) == HasMore(node, lim)

\* line 323: if (allowPaging && node.hasMore)
StartsPaging(node, lim) == opts.allowPaging /\ HasMore(node, lim)

\* lines 316-348: the node is traversed
Traverse(node, rest) ==
    LET ch == GetChildren(node, limit)
        seen == called \cup {node}
    IN  IF Len(ch) = 0
        THEN Step("loop", rest, depth, NoNode, NoNode, seen)
        ELSE IF node \in Pageable
        THEN IF Find(ch) # NoNode
             THEN Step("done", rest, depth, NoNode, Find(ch), seen)
             ELSE IF StartsPaging(node, limit)
             THEN Step("paging", AfterPageable(rest, ch), depth, node, NoNode, seen)
             ELSE Step("loop", AfterPageable(rest, ch), depth, NoNode, NoNode, seen)
        ELSE Step("loop", Enqueue(rest, ch), depth, NoNode, NoNode, seen)

MarkerDropped(rest) == rest

\* line 300: queue.push(undefined)
PushMarker(rest) == Append(rest, NoNode)

\* lines 293-349: one iteration, up to the next iteration, the paging loop
\* or the return
Iteration ==
    LET node == Head(queue)
        rest == Tail(queue)
    IN  IF Len(queue) <= 1
        THEN Step("done", queue, depth, NoNode, NoNode, called)
        ELSE IF IsCancellationRequested(token)
        THEN Step("done", queue, depth, NoNode, NoNode, called)
        ELSE IF node = NoNode
        THEN IF DepthExceeded(depth + 1, opts.maxDepth)
             THEN Step("done", PushMarker(rest), depth + 1, NoNode, NoNode, called)
             ELSE Step("loop", PushMarker(rest), depth + 1, NoNode, NoNode, called)
        ELSE IF Predicate(node)
        THEN Step("done", rest, depth, NoNode, node, called)
        ELSE IF ~CanTraverse(node)
        THEN Step("loop", rest, depth, NoNode, NoNode, called)
        ELSE Traverse(node, rest)

\* findNodeCoreBFS, lines 293-349: one iteration of the while loop
Pop ==
    /\ pc = "loop"
    /\ \E next \in {Iteration} :
        /\ pc' = next.pc
        /\ queue' = next.queue
        /\ depth' = next.depth
        /\ paging' = next.paging
        /\ result' = next.result
        /\ called' = next.called
    /\ UNCHANGED <<root, limit, lastKnownLimits, opts, token, showMores,
                   late, start, failed>>
    /\ UNCHANGED <<reposVars, notifyVars, limitsVars, commitsVars, hostVars, debounceVars, explorerVars, trackerVars>>

\* findNodeCoreBFS, lines 324-341: one round of the paging loop
PagingRound ==
    /\ pc = "paging"
    /\ IF IsCancellationRequested(token)
       THEN /\ pc' = "done"
            /\ result' = NoNode
            /\ UNCHANGED <<limit, lastKnownLimits, paging, called,
                           showMores, late>>
       ELSE \E paged \in {ShowMore(paging, limit, opts.pageSize)} :
            /\ limit' = paged
            /\ lastKnownLimits' = SetLastKnownLimit(lastKnownLimits, paging, paged)
            /\ showMores' = showMores + 1
            /\ late' = (late \/ Find(GetChildren(paging, limit)) # NoNode)
            /\ called' = called \cup {paging}
            /\ IF Find(GetChildren(paging, paged)) # NoNode
               THEN /\ pc' = "done"
                    /\ result' = Find(GetChildren(paging, paged))
                    /\ paging' = NoNode
               ELSE IF PagingEnds(paging, paged)
               THEN /\ pc' = "loop"
                    /\ paging' = NoNode
                    /\ UNCHANGED result
               ELSE UNCHANGED <<pc, paging, result>>
    /\ UNCHANGED <<root, opts, token, queue, depth, start, failed>>
    /\ UNCHANGED <<reposVars, notifyVars, limitsVars, commitsVars, hostVars, debounceVars, explorerVars, trackerVars>>

\* lines 327-340 when the token is cancelled while the round is suspended:
\* showMore has run, the cancellable getChildren resolves to [] (line 333)
CancelDuringRound ==
    /\ pc = "paging"
    /\ token = "live"
    /\ token' = "cancelled"
    /\ \E paged \in {ShowMore(paging, limit, opts.pageSize)} :
        /\ limit' = paged
        /\ lastKnownLimits' = SetLastKnownLimit(lastKnownLimits, paging, paged)
        /\ showMores' = showMores + 1
        /\ late' = (late \/ Find(GetChildren(paging, limit)) # NoNode)
        /\ IF PagingEnds(paging, paged)
           THEN /\ pc' = "loop"
                /\ paging' = NoNode
           ELSE UNCHANGED <<pc, paging>>
    /\ UNCHANGED <<root, opts, queue, depth, result, called, start, failed>>
    /\ UNCHANGED <<reposVars, notifyVars, limitsVars, commitsVars, hostVars, debounceVars, explorerVars, trackerVars>>

RethrowSearchError == "rejected"

\* findNode, lines 271-274: catch (ex) { Logger.error; return undefined }
CatchSearchError == "done"

\* lines 306-316: a call of the iteration throws or rejects: the predicate,
\* canTraverse (when given and the predicate said no) or the node's
\* getChildren (when the node is traversable); the catch of findNode ends
\* the call
SearchThrows ==
    /\ pc = "loop"
    /\ Len(queue) > 1
    /\ ~IsCancellationRequested(token)
    /\ Head(queue) # NoNode
    /\ \E call \in {"predicate", "canTraverse", "getChildren"} :
        /\ call = "canTraverse"
              => (~Predicate(Head(queue)) /\ opts.canTraverse.given)
        /\ call = "getChildren"
              => (~Predicate(Head(queue)) /\ CanTraverse(Head(queue)))
        /\ failed' = call
        /\ called' = IF call = "getChildren"
                      THEN called \cup {Head(queue)} ELSE called
    /\ queue' = Tail(queue)
    /\ pc' = CatchSearchError
    /\ result' = NoNode
    /\ UNCHANGED <<root, limit, lastKnownLimits, opts, token, depth, paging,
                   showMores, late, start>>
    /\ UNCHANGED <<reposVars, notifyVars, limitsVars, commitsVars, hostVars, debounceVars, explorerVars, trackerVars>>

\* lines 327-335: showMoreNodeChildren rejects (node.showMore threw, line
\* 447 is not reached), or showMore went through and the getChildren of the
\* round rejects; the catch of findNode ends the call
PagingThrows ==
    /\ pc = "paging"
    /\ ~IsCancellationRequested(token)
    /\ \E call \in {"showMore", "getChildren"} :
        /\ failed' = call
        /\ IF call = "showMore"
           THEN UNCHANGED <<limit, lastKnownLimits, showMores, late, called>>
           ELSE \E paged \in {ShowMore(paging, limit, opts.pageSize)} :
                /\ limit' = paged
                /\ lastKnownLimits' = SetLastKnownLimit(lastKnownLimits, paging, paged)
                /\ showMores' = showMores + 1
                /\ late' = (late \/ Find(GetChildren(paging, limit)) # NoNode)
                /\ called' = called \cup {paging}
    /\ pc' = CatchSearchError
    /\ result' = NoNode
    /\ UNCHANGED <<root, opts, token, queue, depth, paging, start>>
    /\ UNCHANGED <<reposVars, notifyVars, limitsVars, commitsVars, hostVars, debounceVars, explorerVars, trackerVars>>

\* findNode, line 270: the call resolves and its locals are gone
Return ==
    /\ pc = "done"
    /\ pc' = "idle"
    /\ opts' = NoOpts
    /\ token' = "none"
    /\ queue' = <<>>
    /\ depth' = 0
    /\ paging' = NoNode
    /\ result' = NoNode
    /\ called' = {}
    /\ showMores' = 0
    /\ late' = FALSE
    /\ start' = [limit |-> limit, lastKnownLimits |-> lastKnownLimits]
    /\ failed' = "none"
    /\ UNCHANGED <<root, limit, lastKnownLimits>>
    /\ UNCHANGED <<reposVars, notifyVars, limitsVars, commitsVars, hostVars, debounceVars, explorerVars, trackerVars>>

NextFind ==
    \/ FindNode
    \/ Cancel
    \/ Pop
    \/ PagingRound
    \/ CancelDuringRound
    \/ SearchThrows
    \/ PagingThrows
    \/ Return

----------------------------------------------------------------------------
(***************************************************************************)
(* ViewBase.refresh, refreshNode and triggerNodeChange                     *)
(***************************************************************************)
\* a call of refreshNode or ViewBase.refresh: where it is, its arguments,
\* the reset flags node.refresh was invoked with, how node.refresh settled
\* ("none" while it has not), and the payloads the call fired (history)
NoCall == [pc |-> "idle", node |-> NoNode, hasRefresh |-> FALSE,
           reset |-> FALSE, refreshed |-> <<>>, outcome |-> "none",
           fired |-> <<>>, settled |-> "none"]

NoHostCall == [op |-> "none", node |-> NoNode, nodeCall |-> "none",
               result |-> "none"]

NoReveal == [pc |-> "idle", hadTree |-> FALSE, called |-> FALSE,
             outcome |-> "none", settled |-> "none"]

\* how a call on a node settles: with its value, or by throwing
NodeCalls == {"value", "threw"}

\* getChildren lines 173 and 176, getTreeItem line 184: the node's result is
\* returned as it is, so the host receives the node's value or its failure
Delegated(nodeCall) == nodeCall

\* refresh lines 355-358, refreshNode lines 364-370: the await of the
\* node's refresh is not guarded, so its rejection rejects the call
Settles(outcome) == IF outcome = "threw" THEN "rejected" ELSE "resolved"

RevealRethrows(outcome) == IF outcome = "threw" THEN "rejected" ELSE "resolved"

\* reveal, lines 386-390: try { await this._tree.reveal(...) } catch (ex)
\* { Logger.error(ex) }
RevealSettles(outcome) == "resolved"

\* how an awaited node.refresh(reset) settles: it resolves to true (skip),
\* resolves to nothing, or rejects
Outcomes == {"true", "void", "threw"}

PayloadUnfiltered(node) == node

\* triggerNodeChange, line 455: the root and no node stand for the whole tree
Payload(node) == IF node # NoNode /\ node # root THEN node ELSE NoNode

NeverSkips(outcome) == FALSE

\* refreshNode, line 367: if (cancel === true) return
SkipsNotification(outcome) == outcome = "true"

RootRefreshSkipped(hasRefresh) == FALSE

\* refresh, line 356: this._root?.refresh?.(reset)
RootRefreshCalled(hasRefresh) == root # NoNode /\ hasRefresh

\* ViewBase._disposable before initialize: the bundles of tree view and
\* listeners created so far and those still live, the dispose() calls of the
\* view and what the last of them released
NoDisposable == [created |-> 0, live |-> 0, disposeCalls |-> 0, released |-> {}]

InitNotify ==
    /\ events = <<>>
    /\ rn = NoCall
    /\ vr = NoCall
    /\ host = NoHostCall
    /\ tree = FALSE
    /\ rv = NoReveal
    /\ roots = 0
    /\ forced = 0
    /\ disposable = NoDisposable

\* ViewBase.getChildren(node), lines 172-177, asked by the host: the
\* children of the node, or of the root that ensureRoot creates when there
\* is none
ViewGetChildren ==
    /\ \E node \in {NoNode, "A"}, nodeCall \in NodeCalls :
        /\ node # NoNode => root # NoNode
        /\ host' = [op |-> "getChildren", node |-> node,
                    nodeCall |-> nodeCall, result |-> Delegated(nodeCall)]
        /\ root' = IF node = NoNode THEN Root ELSE root
        /\ roots' = IF node = NoNode THEN EnsureRoot(FALSE) ELSE roots
    /\ UNCHANGED <<tree, rv, forced, disposable>>
    /\ UNCHANGED <<searchVars, reposVars, notifyVars, limitsVars, commitsVars, debounceVars, explorerVars, trackerVars>>

\* ensureRoot(true), lines 164-170, as a view calls it to replace its root
ForceRoot ==
    /\ forced < MaxForced
    /\ forced' = IF root = NoNode THEN forced ELSE forced + 1
    /\ root' = Root
    /\ roots' = EnsureRoot(TRUE)
    /\ UNCHANGED <<host, tree, rv, disposable>>
    /\ UNCHANGED <<searchVars, reposVars, notifyVars, limitsVars, commitsVars, debounceVars, explorerVars, trackerVars>>

\* ViewBase.getTreeItem(node), lines 183-185, asked by the host
ViewGetTreeItem ==
    /\ root # NoNode
    /\ \E node \in {Root, "A"}, nodeCall \in NodeCalls :
        host' = [op |-> "getTreeItem", node |-> node,
                 nodeCall |-> nodeCall, result |-> Delegated(nodeCall)]
    /\ UNCHANGED <<tree, rv, roots, forced, disposable>>
    /\ UNCHANGED <<findVars, reposVars, notifyVars, limitsVars, commitsVars, debounceVars, explorerVars, trackerVars>>

\* initialize, lines 145-162: a _disposable left by an earlier run is
\* disposed (146-149), then the host's tree view and its three listeners are
\* created and kept in a new _disposable (151-160)
Initialized(d) ==
    LET live == IF d.created > 0 THEN 0 ELSE d.live
    IN  [d EXCEPT !.created = @ + 1, !.live = live + 1]

Initialize ==
    /\ disposable.created < MaxInits
    /\ tree' = TRUE
    /\ disposable' = Initialized(disposable)
    /\ UNCHANGED <<host, rv, roots, forced>>
    /\ UNCHANGED <<findVars, reposVars, notifyVars, limitsVars, commitsVars, debounceVars, explorerVars, trackerVars>>

\* ViewBase.dispose(), lines 85-87: this._disposable?.dispose() and nothing
\* else, so what the call releases is the tree view and its listeners
Disposed(d) ==
    [d EXCEPT !.live = 0, !.disposeCalls = @ + 1,
              !.released = IF d.created > 0 THEN {"tree", "listeners"} ELSE {}]

ViewDispose ==
    /\ disposable.disposeCalls < MaxInits
    /\ disposable' = Disposed(disposable)
    /\ UNCHANGED <<host, tree, rv, roots, forced>>
    /\ UNCHANGED <<findVars, reposVars, notifyVars, limitsVars, commitsVars, debounceVars, explorerVars, trackerVars>>

\* reveal, lines 384-387 up to the await of the host's reveal, or to the
\* return of line 384 when there is no tree view
Reveal ==
    /\ rv.pc = "idle"
    /\ root # NoNode
    /\ rv' = IF tree
             THEN [NoReveal EXCEPT !.pc = "awaiting", !.hadTree = TRUE,
                                   !.called = TRUE]
             ELSE [NoReveal EXCEPT !.pc = "done", !.settled = "resolved"]
    /\ UNCHANGED <<host, tree, roots, forced, disposable>>
    /\ UNCHANGED <<findVars, reposVars, notifyVars, limitsVars, commitsVars, debounceVars, explorerVars, trackerVars>>

\* reveal, lines 387-390 once the host's reveal has settled
RevealResume ==
    /\ rv.pc = "awaiting"
    /\ \E outcome \in {"ok", "threw"} :
        rv' = [rv EXCEPT !.pc = "done", !.outcome = outcome,
                         !.settled = RevealSettles(outcome)]
    /\ UNCHANGED <<host, tree, roots, forced, disposable>>
    /\ UNCHANGED <<findVars, reposVars, notifyVars, limitsVars, commitsVars, debounceVars, explorerVars, trackerVars>>

\* the reveal call has settled
RevealReturn ==
    /\ rv.pc = "done"
    /\ rv' = NoReveal
    /\ UNCHANGED <<host, tree, roots, forced, disposable>>
    /\ UNCHANGED <<findVars, reposVars, notifyVars, limitsVars, commitsVars, debounceVars, explorerVars, trackerVars>>

\* refreshNode, lines 364-370 up to the await of node.refresh, or to the
\* end for a node without a refresh operation
RefreshNode ==
    /\ rn.pc = "idle"
    /\ root # NoNode
    /\ Len(events) + (IF vr.pc = "awaiting" THEN 1 ELSE 0) < MaxEvents
    /\ \E node \in {Root, "A"}, hasRefresh \in BOOLEAN, reset \in BOOLEAN :
        IF hasRefresh
        THEN /\ rn' = [NoCall EXCEPT !.pc = "awaiting", !.node = node,
                                     !.hasRefresh = TRUE, !.reset = reset,
                                     !.refreshed = <<reset>>]
             /\ UNCHANGED events
        ELSE /\ rn' = [NoCall EXCEPT !.pc = "done", !.node = node,
                                     !.reset = reset,
                                     !.fired = <<Payload(node)>>,
                                     !.settled = "resolved"]
             /\ events' = Append(events, Payload(node))
    /\ UNCHANGED <<vr, findVars, reposVars, limitsVars, commitsVars, hostVars, debounceVars, explorerVars, trackerVars>>

\* refreshNode, lines 366-370 once node.refresh has settled
RefreshNodeResume ==
    /\ rn.pc = "awaiting"
    /\ \E outcome \in Outcomes :
        IF outcome = "threw" \/ SkipsNotification(outcome)
        THEN /\ rn' = [rn EXCEPT !.pc = "done", !.outcome = outcome,
                                 !.settled = Settles(outcome)]
             /\ UNCHANGED events
        ELSE /\ rn' = [rn EXCEPT !.pc = "done", !.outcome = outcome,
                                 !.fired = Append(@, Payload(rn.node)),
                                 !.settled = Settles(outcome)]
             /\ events' = Append(events, Payload(rn.node))
    /\ UNCHANGED <<vr, findVars, reposVars, limitsVars, commitsVars, hostVars, debounceVars, explorerVars, trackerVars>>

\* the refreshNode call has settled
RefreshNodeReturn ==
    /\ rn.pc = "done"
    /\ rn' = NoCall
    /\ UNCHANGED <<events, vr, findVars, reposVars, limitsVars, commitsVars, hostVars, debounceVars, explorerVars, trackerVars>>

\* refresh, line 356 up to the await: the root's refresh is invoked when
\* there is a root and it has one
ViewRefresh ==
    /\ vr.pc = "idle"
    /\ Len(events) + (IF rn.pc = "awaiting" THEN 1 ELSE 0) < MaxEvents
    /\ \E hasRefresh \in BOOLEAN, reset \in BOOLEAN :
        vr' = [NoCall EXCEPT !.pc = "awaiting", !.node = root,
                             !.hasRefresh = hasRefresh, !.reset = reset,
                             !.refreshed = IF RootRefreshCalled(hasRefresh)
                                           THEN <<reset>> ELSE <<>>]
    /\ UNCHANGED <<events, rn, findVars, reposVars, limitsVars, commitsVars, hostVars, debounceVars, explorerVars, trackerVars>>

\* refresh, lines 356-358 once the awaited value has settled: the result of
\* the root's refresh is ignored, a rejection ends the call
ViewRefreshResume ==
    /\ vr.pc = "awaiting"
    /\ \E outcome \in Outcomes :
        /\ vr.refreshed = <<>> => outcome = "void"
        /\ IF outcome = "threw"
           THEN /\ vr' = [vr EXCEPT !.pc = "done", !.outcome = outcome,
                                    !.settled = Settles(outcome)]
                /\ UNCHANGED events
           ELSE /\ vr' = [vr EXCEPT !.pc = "done", !.outcome = outcome,
                                    !.fired = Append(@, Payload(NoNode)),
                                    !.settled = Settles(outcome)]
                /\ events' = Append(events, Payload(NoNode))
    /\ UNCHANGED <<rn, findVars, reposVars, limitsVars, commitsVars, hostVars, debounceVars, explorerVars, trackerVars>>

\* the refresh call has settled
ViewRefreshReturn ==
    /\ vr.pc = "done"
    /\ vr' = NoCall
    /\ UNCHANGED <<events, rn, findVars, reposVars, limitsVars, commitsVars, hostVars, debounceVars, explorerVars, trackerVars>>

NextHost ==
    \/ ViewGetChildren
    \/ ForceRoot
    \/ ViewGetTreeItem
    \/ Initialize
    \/ ViewDispose
    \/ Reveal
    \/ RevealResume
    \/ RevealReturn
    \/ ViewRefresh
    \/ ViewRefreshResume
    \/ ViewRefreshReturn

NextNotify ==
    \/ ViewGetChildren
    \/ RefreshNode
    \/ RefreshNodeResume
    \/ RefreshNodeReturn
    \/ ViewRefresh
    \/ ViewRefreshResume
    \/ ViewRefreshReturn

----------------------------------------------------------------------------
(***************************************************************************)
(* ViewBase.showMoreNodeChildren and resetNodeLastKnownLimit               *)
(***************************************************************************)
NoShowMore == [pc |-> "idle", node |-> NoNode, pageSize |-> 0]

\* what an operation did to _lastKnownLimits: the operation, its node and
\* the map before it
Touched(op, node) == [op |-> op, node |-> node, before |-> lastKnownLimits]

\* resetNodeLastKnownLimit, line 434: this._lastKnownLimits.delete(node.id)
DeleteLastKnownLimit(map, n) == [map EXCEPT ![n] = 0]

InitLimits ==
    /\ sm = NoShowMore
    /\ lk = Touched("none", NoNode)

\* showMoreNodeChildren, lines 437-446 up to the await of node.showMore
ShowMoreNodeChildren ==
    /\ sm.pc = "idle"
    /\ \E node \in Pageable, pageSize \in 1..MaxPageSize :
        sm' = [pc |-> "awaiting", node |-> node, pageSize |-> pageSize]
    /\ lk' = Touched("none", NoNode)
    /\ UNCHANGED <<findVars, reposVars, notifyVars, commitsVars, hostVars, debounceVars, explorerVars, trackerVars>>

\* showMoreNodeChildren, lines 446-447 once node.showMore has settled: the
\* window has grown and the node's limit is recorded under its id, or
\* showMore rejected and line 447 is not reached
ShowMoreNodeChildrenResume ==
    /\ sm.pc = "awaiting"
    /\ sm' = NoShowMore
    /\ \E ok \in BOOLEAN :
        IF ok
        THEN \E paged \in {ShowMore(sm.node, limit, sm.pageSize)} :
             /\ limit' = paged
             /\ lastKnownLimits' = SetLastKnownLimit(lastKnownLimits, sm.node, paged)
             /\ lk' = Touched("showMore", sm.node)
        ELSE /\ lk' = Touched("none", NoNode)
             /\ UNCHANGED <<limit, lastKnownLimits>>
    /\ UNCHANGED <<root, pc, opts, token, queue, depth, paging, result,
                   called, showMores, late, start, failed>>
    /\ UNCHANGED <<reposVars, notifyVars, commitsVars, hostVars, debounceVars, explorerVars, trackerVars>>

\* resetNodeLastKnownLimit, lines 432-435
ResetNodeLastKnownLimit ==
    /\ \E node \in Pageable :
        /\ lastKnownLimits' = DeleteLastKnownLimit(lastKnownLimits, node)
        /\ lk' = Touched("reset", node)
    /\ UNCHANGED <<root, limit, pc, opts, token, queue, depth, paging, result,
                   called, showMores, late, start, failed>>
    /\ UNCHANGED <<sm, reposVars, notifyVars, commitsVars, hostVars, debounceVars, explorerVars, trackerVars>>

NextLimits ==
    \/ ShowMoreNodeChildren
    \/ ShowMoreNodeChildrenResume
    \/ ResetNodeLastKnownLimit

----------------------------------------------------------------------------
(***************************************************************************)
(* CommitsViewNode and CommitsRepositoryNode                               *)
(***************************************************************************)
\* what Container.git.getOrderedRepositories() may resolve to
OrderedRepositories == {<<>>, <<"r1">>, <<"r1", "r2">>, <<"r2", "r1">>}

\* new CommitsRepositoryNode(...): no BranchNode child yet (child = 0)
CommitsRepositoryNode(repo) == [repo |-> repo, disposeCalls |-> 0, child |-> 0]

\* what an operation of the commits nodes did: the operation, its reset flag
\* and node, whether a getChildren computed or returned the cache, and the
\* cache, the child, the instances and the branches before it, and the
\* BranchNodes it called dispose() on
CommitsDid(op, reset, node, outcome) ==
    [op |-> op, reset |-> reset, node |-> node, outcome |-> outcome,
     pre |-> cvChildren,
     preChild |-> IF node = 0 THEN 0 ELSE cvNodes[node].child,
     count |-> Len(cvNodes), branches |-> cvBranches, disposed |-> {}]

\* CommitsRepositoryNode.refresh, lines 183-185: the BranchNodes the reset
\* disposes; this.child = undefined is the whole branch, no dispose() call
DisposedOnReset(reset, child) == {}

ClearsNever(reset, ch) == FALSE

\* CommitsViewNode.refresh, line 266: reset && this.children != null
Clears(reset, ch) == reset /\ ch # Undefined

InitCommits ==
    /\ cvChildren = Undefined
    /\ cvNodes = <<>>
    /\ cvPending = 0
    /\ cvAwaiting = {}
    /\ cvBranches = 0
    /\ cvLast = CommitsDid("none", FALSE, 0, "none")

\* CommitsViewNode.getChildren, lines 211-212 and 226-248 with a cache
CommitsGetChildrenCached ==
    /\ cvChildren # Undefined
    /\ cvLast' = CommitsDid("viewGetChildren", FALSE, 0, "cached")
    /\ UNCHANGED <<cvChildren, cvNodes, cvPending, cvAwaiting, cvBranches>>
    /\ UNCHANGED <<reposVars, findVars, notifyVars, limitsVars, hostVars, debounceVars, explorerVars, trackerVars>>

\* CommitsViewNode.getChildren, lines 212-213: suspend in the fetch
CommitsGetChildrenFetch ==
    /\ cvChildren = Undefined
    /\ cvPending < MaxCalls
    /\ cvPending' = cvPending + 1
    /\ cvLast' = CommitsDid("none", FALSE, 0, "none")
    /\ UNCHANGED <<cvChildren, cvNodes, cvAwaiting, cvBranches>>
    /\ UNCHANGED <<reposVars, findVars, notifyVars, limitsVars, hostVars, debounceVars, explorerVars, trackerVars>>

\* CommitsViewNode.getChildren, lines 213-224 after the fetch resolved
CommitsGetChildrenResume ==
    /\ cvPending > 0
    /\ cvPending' = cvPending - 1
    /\ \E repositories \in OrderedRepositories :
        IF Len(repositories) = 0
        THEN /\ cvLast' = CommitsDid("viewGetChildren", FALSE, 0, "empty")
             /\ UNCHANGED <<cvChildren, cvNodes>>
        ELSE /\ Len(cvNodes) + Len(repositories) <= MaxNodes
             /\ cvNodes' = cvNodes \o [i \in 1..Len(repositories) |->
                                         CommitsRepositoryNode(repositories[i])]
             /\ cvChildren' = [i \in 1..Len(repositories) |-> Len(cvNodes) + i]
             /\ cvLast' = CommitsDid("viewGetChildren", FALSE, 0, "computed")
    /\ UNCHANGED <<cvAwaiting, cvBranches>>
    /\ UNCHANGED <<reposVars, findVars, notifyVars, limitsVars, hostVars, debounceVars, explorerVars, trackerVars>>

\* CommitsViewNode.refresh(reset), lines 264-273
CommitsRefresh ==
    /\ \E reset \in BOOLEAN :
        /\ IF Clears(reset, cvChildren)
           THEN /\ cvNodes' = [i \in 1..Len(cvNodes) |->
                                 IF i \in Range(cvChildren)
                                 THEN [cvNodes[i] EXCEPT !.disposeCalls = @ + 1]
                                 ELSE cvNodes[i]]
                /\ cvChildren' = Undefined
           ELSE UNCHANGED <<cvChildren, cvNodes>>
        /\ cvLast' = CommitsDid("viewRefresh", reset, 0, "none")
    /\ UNCHANGED <<cvPending, cvAwaiting, cvBranches>>
    /\ UNCHANGED <<reposVars, findVars, notifyVars, limitsVars, hostVars, debounceVars, explorerVars, trackerVars>>

\* CommitsRepositoryNode.getChildren, lines 91-92 and 119 with a child
CommitsRepositoryGetChildrenCached ==
    /\ cvChildren # Undefined
    /\ \E node \in Range(cvChildren) :
        /\ cvNodes[node].child # 0
        /\ cvLast' = CommitsDid("repoGetChildren", FALSE, node, "cached")
    /\ UNCHANGED <<cvChildren, cvNodes, cvPending, cvAwaiting, cvBranches>>
    /\ UNCHANGED <<reposVars, findVars, notifyVars, limitsVars, hostVars, debounceVars, explorerVars, trackerVars>>

\* CommitsRepositoryNode.getChildren, lines 92-93: suspend in getBranch
CommitsRepositoryGetChildrenFetch ==
    /\ cvChildren # Undefined
    /\ \E node \in Range(cvChildren) \ cvAwaiting :
        /\ cvNodes[node].child = 0
        /\ cvAwaiting' = cvAwaiting \cup {node}
    /\ cvLast' = CommitsDid("none", FALSE, 0, "none")
    /\ UNCHANGED <<cvChildren, cvNodes, cvPending, cvBranches>>
    /\ UNCHANGED <<reposVars, findVars, notifyVars, limitsVars, hostVars, debounceVars, explorerVars, trackerVars>>

\* CommitsRepositoryNode.getChildren, lines 93-119 once the branch is known:
\* without a branch nothing is cached, otherwise a BranchNode is constructed
CommitsRepositoryGetChildrenResume ==
    /\ \E node \in cvAwaiting, hasBranch \in BOOLEAN :
        /\ cvAwaiting' = cvAwaiting \ {node}
        /\ IF hasBranch
           THEN /\ cvBranches < MaxBranches
                /\ cvBranches' = cvBranches + 1
                /\ cvNodes' = [cvNodes EXCEPT ![node].child = cvBranches + 1]
                /\ cvLast' = CommitsDid("repoGetChildren", FALSE, node, "computed")
           ELSE /\ cvLast' = CommitsDid("repoGetChildren", FALSE, node, "empty")
                /\ UNCHANGED <<cvNodes, cvBranches>>
    /\ UNCHANGED <<cvChildren, cvPending>>
    /\ UNCHANGED <<reposVars, findVars, notifyVars, limitsVars, hostVars, debounceVars, explorerVars, trackerVars>>

\* CommitsRepositoryNode.refresh(reset), lines 180-190
CommitsRepositoryRefresh ==
    /\ cvChildren # Undefined
    /\ \E node \in Range(cvChildren), reset \in BOOLEAN :
        /\ cvNodes' = IF reset THEN [cvNodes EXCEPT ![node].child = 0]
                      ELSE cvNodes
        /\ cvLast' = [CommitsDid("repoRefresh", reset, node, "none") EXCEPT
                          !.disposed = DisposedOnReset(reset, cvNodes[node].child)]
    /\ UNCHANGED <<cvChildren, cvPending, cvAwaiting, cvBranches>>
    /\ UNCHANGED <<reposVars, findVars, notifyVars, limitsVars, hostVars, debounceVars, explorerVars, trackerVars>>

NextCommits ==
    \/ CommitsGetChildrenCached
    \/ CommitsGetChildrenFetch
    \/ CommitsGetChildrenResume
    \/ CommitsRefresh
    \/ CommitsRepositoryGetChildrenCached
    \/ CommitsRepositoryGetChildrenFetch
    \/ CommitsRepositoryGetChildrenResume
    \/ CommitsRepositoryRefresh

----------------------------------------------------------------------------
(***************************************************************************)
(* The subscriptions of RepositoriesNode.subscribe and Functions.debounce  *)
(***************************************************************************)

NoRun == [burst |-> 0, since |-> 0]

RestartsNever(t) == IF t > 0 THEN t ELSE Window

\* Functions.debounce(fn, wait): every call of the debounced function
\* starts the window again
Restart(t) == Window

InitSubscriptions ==
    /\ timer = 0
    /\ since = Window
    /\ arrivals = 0
    /\ bursts = 0
    /\ runs = 0
    /\ lastRun = NoRun
    /\ direct = 0

\* subscribe, line 108: window.onDidChangeActiveTextEditor delivers an
\* event to the debounced onActiveEditorChanged
ActiveEditorChanged ==
    /\ arrivals < MaxArrivals
    /\ arrivals' = arrivals + 1
    /\ timer' = Restart(timer)
    /\ bursts' = IF since >= Window THEN bursts + 1 ELSE bursts
    /\ since' = 0
    /\ UNCHANGED <<runs, lastRun, direct>>
    /\ UNCHANGED <<reposVars, findVars, notifyVars, limitsVars, commitsVars, hostVars, explorerVars, trackerVars>>

\* one tick of the clock: a timer that expires runs onActiveEditorChanged
\* (the trailing edge of the window)
Tick ==
    /\ timer > 0 \/ since < Window
    /\ since' = Min(since + 1, Window)
    /\ IF timer = 1
       THEN /\ timer' = 0
            /\ runs' = runs + 1
            /\ lastRun' = [burst |-> bursts, since |-> since']
       ELSE /\ timer' = IF timer > 0 THEN timer - 1 ELSE 0
            /\ UNCHANGED <<runs, lastRun>>
    /\ UNCHANGED <<arrivals, bursts, direct>>
    /\ UNCHANGED <<reposVars, findVars, notifyVars, limitsVars, commitsVars, hostVars, explorerVars, trackerVars>>

\* subscribe, line 103, and onRepositoriesChanged, lines 146-148:
\* Container.git.onDidChangeRepositories delivers an event to the handler,
\* which is not debounced
RepositoriesChanged ==
    /\ direct < MaxArrivals
    /\ direct' = direct + 1
    /\ UNCHANGED <<timer, since, arrivals, bursts, runs, lastRun>>
    /\ UNCHANGED <<reposVars, findVars, notifyVars, limitsVars, commitsVars, hostVars, explorerVars, trackerVars>>

NextSubscriptions ==
    \/ ActiveEditorChanged
    \/ Tick
    \/ RepositoriesChanged

----------------------------------------------------------------------------
(***************************************************************************)
(* GitExplorer: the root loads of getRootNode and the getChildren calls    *)
(* that wait for them through _loading                                     *)
(***************************************************************************)
\* the callers of getRootNode: reset (lines 246-256, with and without
\* force), refresh (lines 230-236) and onActiveEditorChanged (lines 172-180)
Loaders == {"reset", "resetForce", "refresh", "editor"}

\* the loads of a set that have not resolved yet
Fetching(ls) == {i \in 1..Len(ls) : ls[i].pc = "fetching"}

\* the loads whose result has been assigned to _root
Completed(ls) == {i \in 1..Len(ls) : ls[i].pc # "fetching"}

\* getChildren, lines 120-126, from the read of _root on: the call holds the
\* root it read, the loads it began under that had not assigned their
\* result at the read, and the loads that had completed at the read
ReadRoot(call) ==
    [call EXCEPT !.pc = "read", !.read = geRoot,
                 !.missed = call.began \cap Fetching(geLoads),
                 !.completed = Completed(geLoads)]

InitExplorer ==
    /\ geRoot = 0
    /\ geLoading = 0
    /\ geLoads = <<>>
    /\ geCalls = <<>>

\* getRootNode, lines 129-151, up to its await, with the caller's statements
\* before the call: the load starts and its promise, followed by wait(0),
\* replaces _loading (lines 133 and 138); reset(view, true) has cleared _root
\* (lines 249-251)
ExplorerGetRootNode ==
    /\ Len(geLoads) < MaxLoads
    /\ \E op \in Loaders :
        /\ geLoads' = Append(geLoads, [op |-> op, pc |-> "fetching"])
        /\ geRoot' = IF op = "resetForce" THEN 0 ELSE geRoot
    /\ geLoading' = Len(geLoads) + 1
    /\ UNCHANGED geCalls
    /\ UNCHANGED <<reposVars, findVars, notifyVars, limitsVars, commitsVars, hostVars, debounceVars, trackerVars>>

\* the load's promise resolves and, in the same turn, the caller assigns the
\* result to _root (lines 175-178, 232 and 252): a new root node, or
\* undefined when there is nothing to show
ExplorerLoadResolve ==
    /\ \E i \in Fetching(geLoads), found \in BOOLEAN :
        /\ geLoads' = [geLoads EXCEPT ![i].pc = "assigned"]
        /\ geRoot' = IF found THEN i ELSE 0
    /\ UNCHANGED <<geLoading, geCalls>>
    /\ UNCHANGED <<reposVars, findVars, notifyVars, limitsVars, commitsVars, hostVars, debounceVars, trackerVars>>

\* the wait(0) that follows a load ends, so the _loading promise of that
\* load resolves: every getChildren call awaiting it resumes at line 117,
\* clears _loading and reads _root
ExplorerLoadSettle ==
    /\ \E i \in 1..Len(geLoads) :
        /\ geLoads[i].pc = "assigned"
        /\ geLoads' = [geLoads EXCEPT ![i].pc = "settled"]
        /\ LET resumed == {c \in 1..Len(geCalls) :
                              geCalls[c].pc = "awaiting" /\ geCalls[c].awaits = i}
           IN  /\ geCalls' = [c \in 1..Len(geCalls) |->
                                IF c \in resumed THEN ReadRoot(geCalls[c])
                                ELSE geCalls[c]]
               /\ geLoading' = IF resumed = {} THEN geLoading ELSE 0
    /\ UNCHANGED geRoot
    /\ UNCHANGED <<reposVars, findVars, notifyVars, limitsVars, commitsVars, hostVars, debounceVars, trackerVars>>

\* getChildren(node), lines 114-118: with a _loading that has not resolved
\* the call awaits it; otherwise it clears _loading and reads _root at once
ExplorerGetChildren ==
    /\ Len(geCalls) < MaxGets
    /\ LET call == [pc |-> "awaiting", awaits |-> geLoading,
                    began |-> Fetching(geLoads), read |-> 0,
                    missed |-> {}, completed |-> {}]
       IN  IF geLoading # 0 /\ geLoads[geLoading].pc # "settled"
           THEN /\ geCalls' = Append(geCalls, call)
                /\ UNCHANGED geLoading
           ELSE /\ geCalls' = Append(geCalls, ReadRoot(call))
                /\ geLoading' = 0
    /\ UNCHANGED <<geRoot, geLoads>>
    /\ UNCHANGED <<reposVars, findVars, notifyVars, limitsVars, commitsVars, hostVars, debounceVars, trackerVars>>

\* getChildren, lines 120-126: the children of the root the call read (or the
\* message node for no root) are returned once the root's getChildren resolves
ExplorerGetChildrenReturn ==
    /\ \E c \in 1..Len(geCalls) :
        /\ geCalls[c].pc = "read"
        /\ geCalls' = [geCalls EXCEPT ![c].pc = "returned",
                          ![c].completed = Completed(geLoads) \ @]
    /\ UNCHANGED <<geRoot, geLoading, geLoads>>
    /\ UNCHANGED <<reposVars, findVars, notifyVars, limitsVars, commitsVars, hostVars, debounceVars, trackerVars>>

NextExplorer ==
    \/ ExplorerGetRootNode
    \/ ExplorerLoadResolve
    \/ ExplorerLoadSettle
    \/ ExplorerGetChildren
    \/ ExplorerGetChildrenReturn

----------------------------------------------------------------------------
(***************************************************************************)
(* GitContextTracker._updateBlameability                                   *)
(***************************************************************************)
\* the values a caller passes: a boolean from _onBlameFailed and the document
\* handlers (lines 71, 82 and 90), and with force from _updateEditorContext
\* (line 141) a boolean or the undefined of an untracked uri
Blameables(force) ==
    IF force THEN {"true", "false", "undefined"} ELSE {"true", "false"}

\* _updateBlameability, line 150: the call returns without firing when it is
\* not forced and the value equals _isBlameable
Fires(blameable, force) == force \/ isBlameable # blameable

InitTracker ==
    /\ isBlameable = "undefined"
    /\ updates = <<>>

\* _updateBlameability(blameable, force), lines 149-162: the event is fired
\* or not; no statement of the method, or of the class, assigns _isBlameable
UpdateBlameability ==
    /\ Len(updates) < MaxUpdates
    /\ \E force \in BOOLEAN :
        \E blameable \in Blameables(force) :
            updates' = Append(updates, [blameable |-> blameable, force |-> force,
                                        fired |-> Fires(blameable, force)])
    /\ UNCHANGED isBlameable
    /\ UNCHANGED <<reposVars, findVars, notifyVars, limitsVars, commitsVars, hostVars, debounceVars, explorerVars>>

NextTracker == UpdateBlameability

Init ==
    /\ InitRepositories /\ InitFind /\ InitNotify /\ InitLimits /\ InitCommits
    /\ InitSubscriptions /\ InitExplorer /\ InitTracker

SpecSubscriptions == Init /\ [][NextSubscriptions]_vars

SpecExplorer == Init /\ [][NextExplorer]_vars

SpecTracker == Init /\ [][NextTracker]_vars

SpecCommits == Init /\ [][NextCommits]_vars

SpecLimits == Init /\ [][NextLimits]_vars

SpecNotify == Init /\ [][NextNotify]_vars

SpecHost == Init /\ [][NextHost]_vars

SpecRepositories == Init /\ [][NextRepositories]_vars

SpecFind == Init /\ [][NextFind]_vars

\* the continuation of an await that has resolved is run by the event loop
SpecFindFair == SpecFind /\ WF_vars(Pop) /\ WF_vars(PagingRound)

----------------------------------------------------------------------------
(***************************************************************************)
(* Properties of RepositoriesNode                                          *)
(***************************************************************************)
KeyOf(i) == nodes[i].key

IsRepositoryList(ch) ==
    ch # Undefined /\ \A i \in Range(ch) : nodes[i].kind = "repository"

IsPlaceholder(ch) ==
    ch # Undefined /\ Len(ch) = 1 /\ nodes[ch[1]].kind = "message"

\* the last operation was a refresh of a loaded container of RepositoryNodes
\* that ran past the fetch without throwing
Reconciled ==
    /\ last.op = "refresh"
    /\ last.outcome \in {"noop", "placeholder", "reconciled"}
    /\ IsRepositoryList(last.pre)

\* C1: a refresh of a loaded container keeps the very instance of every key
\* that is in both the old children and the new collection and refreshes it,
\* constructs a new child for every key only in the new collection, and
\* disposes exactly once, and drops, every child whose key is only in the old
\* children.
ReconciliationPreservesIdentity ==
    Reconciled =>
        LET old  == Range(last.pre)
            new  == Range(children)
            Knew == DOMAIN last.index
        IN  /\ \A i \in old : KeyOf(i) \in Knew => i \in new /\ i \in last.refreshed
            /\ \A k \in Knew \ {KeyOf(i) : i \in old} :
                  \E i \in new : KeyOf(i) = k /\ i >= last.firstNew
            /\ \A i \in old : KeyOf(i) \notin Knew =>
                  nodes[i].disposeCalls = 1 /\ i \notin new

\* C2: after a refresh the RepositoryNodes of the container are in ascending
\* order of the index their keys have in the collection that refresh fetched;
\* a reconciling refresh yields exactly one child per fetched key, the same
\* instance for a key it had, a new one otherwise, with every dropped child
\* disposed; and getChildren then returns that list.
RefreshOrdersByIndex ==
    /\ (last.op = "refresh" /\ children # Undefined) =>
          \A a, b \in 1..Len(children) :
             (a < b /\ nodes[children[a]].kind = "repository"
                    /\ nodes[children[b]].kind = "repository") =>
                /\ {KeyOf(children[a]), KeyOf(children[b])} \subseteq DOMAIN last.index
                /\ last.index[KeyOf(children[a])] < last.index[KeyOf(children[b])]
    /\ (last.op = "refresh" /\ last.outcome = "reconciled") =>
          /\ IsRepositoryList(children)
          /\ {KeyOf(i) : i \in Range(children)} = DOMAIN last.index
          /\ Len(children) = Cardinality(DOMAIN last.index)
          /\ \A i \in Range(last.pre) :
                IF KeyOf(i) \in DOMAIN last.index
                THEN i \in Range(children)
                ELSE i \notin Range(children) /\ nodes[i].disposeCalls = 1
          /\ \A i \in Range(children) : i \in Range(last.pre) \/ i >= last.firstNew
    /\ (last.op = "getChildren" /\ last.outcome = "cached") => returned = children

\* C2 witness: [r1 (index 0), r2 (index 1)] refreshed onto
\* [r2 (index 0), r3 (index 1)]: r2 kept, r3 new, r1 disposed
RefreshOrdersByIndexWitness ==
    /\ last.op = "refresh" /\ last.outcome = "reconciled"
    /\ Len(last.pre) = 2 /\ Len(children) = 2
    /\ KeyOf(last.pre[1]) = "r1" /\ KeyOf(last.pre[2]) = "r2"
    /\ children[1] = last.pre[2]
    /\ KeyOf(children[2]) = "r3" /\ children[2] >= last.firstNew
    /\ nodes[last.pre[1]].disposeCalls = 1

\* C3: two consecutive getChildren calls with no refresh or dispose between
\* them return the same instances in the same order, and the second one
\* returns the cache without computing.
CacheStability ==
    (last.op = "getChildren" /\ last.prev # Undefined) =>
        returned = last.prev /\ last.outcome = "cached"

\* C4: when two consecutive refreshes both fetch an empty collection, at most
\* one change notification is emitted over the two and the second leaves the
\* placeholder instance that is shown in place.
EmptyFlickerGuard ==
    (/\ last.op = "refresh" /\ last.sawEmpty
     /\ last.before.refresh /\ last.before.sawEmpty) =>
        /\ last.emitted + last.before.emitted <= 1
        /\ children = last.pre
        /\ IsPlaceholder(children)

\* C5: whenever getChildren or refresh fetched an empty collection, the cached
\* children are exactly one placeholder node.
EmptyCachesPlaceholder ==
    (last.op \in {"getChildren", "refresh"} /\ last.sawEmpty) => IsPlaceholder(children)

\* C6: however often and from wherever dispose() is called, the container's
\* subscription handle is released exactly once and no child receives a second
\* dispose(); after dispose() the container holds no subscription and the
\* children it held are disposed with their handles released.
DisposeIdempotent ==
    /\ releases <= 1
    /\ subscription = "live" => releases = 0
    /\ \A i \in 1..Len(nodes) : nodes[i].disposeCalls <= 1
    /\ last.op = "dispose" =>
          /\ subscription = "none"
          /\ last.pre # Undefined =>
                \A i \in Range(last.pre) :
                    nodes[i].kind = "repository" =>
                        nodes[i].disposeCalls = 1 /\ nodes[i].sub # "live"

\* C6 witness: a second dispose() while a refresh is suspended in its fetch,
\* the container's handle and a child's handle each released once
DisposeIdempotentWitness ==
    /\ last.op = "dispose" /\ last.outcome = "again"
    /\ refreshing
    /\ releases = 1
    /\ last.pre # Undefined
    /\ \E i \in Range(last.pre) : nodes[i].sub = "released"

----------------------------------------------------------------------------
(***************************************************************************)
(* Properties of ViewBase.findNode                                         *)
(***************************************************************************)
\* the items of pageable node n that its window did not show when the call began
BeyondWindow(n) ==
    {TreeChildren[n][i] : i \in (start.limit[n] + 1)..Len(TreeChildren[n])}

\* C7: with the root at depth 0, a findNode call with maxDepth = d invokes
\* getChildren on no node deeper than d; with maxDepth = 2 no depth-3 node
\* is asked for its children.
DepthBound ==
    pc # "idle" => \A n \in called : DepthOf(n) <= opts.maxDepth

\* a search with maxDepth = 2 for a node at depth 4 ran to its end: it asked
\* the depth-2 node B for its children, and not B's child C at depth 3
DepthBoundWitness ==
    /\ pc = "done"
    /\ opts.maxDepth = 2
    /\ opts.predicate = "D"
    /\ "B" \in called
    /\ DepthOf("C") = 3
    /\ result = NoNode

\* C8: with allowPaging set, the token never cancelled and no call of the
\* search throwing, a call that
\* reaches a pageable node whose only matching child lies beyond the window
\* loaded when the call began returns that child after at least one showMore
\* call, and no showMore is ever issued on a window that already holds the
\* match.
PagingTermination ==
    /\ ~late
    /\ (/\ pc = "done"
        /\ opts.allowPaging
        /\ token # "cancelled"
        /\ failed = "none"
        /\ \E n \in Pageable \cap called : opts.predicate \in BeyondWindow(n))
       => (result = opts.predicate /\ showMores >= 1)

\* the third item of P, two pages beyond the first window, was found after
\* two showMore calls
PagingTerminationWitness ==
    /\ pc = "done"
    /\ opts.allowPaging
    /\ token # "cancelled"
    /\ failed = "none"
    /\ start.limit["P"] = 1
    /\ opts.predicate = "p3"
    /\ result = "p3"
    /\ showMores = 2

\* C9: a findNode call whose token is already cancelled when it is made
\* returns undefined and getChildren runs on no node other than the root.
PreCancelledToken ==
    (pc # "idle" /\ opts.token = "cancelled")
       => (result = NoNode /\ called \subseteq {Root})

\* a call with a cancelled token ended, although the root itself matches and
\* the host loaded the root while the view was shown
PreCancelledTokenWitness ==
    /\ pc = "done"
    /\ opts.token = "cancelled"
    /\ opts.predicate = Root
    /\ called = {Root}
    /\ result = NoNode

\* C10: a findNode call whose token is cancelled at any point returns
\* undefined and leaves every node's window and limit, and the id-to-limit
\* map of the view, as they were when the call began.
CancellationLeavesTreeUntouched ==
    (pc = "done" /\ token = "cancelled")
       => /\ result = NoNode
          /\ limit = start.limit
          /\ lastKnownLimits = start.lastKnownLimits

\* C11: a search never descends into the children of a pageable node: they
\* are tested against the predicate but never enqueued, so getChildren runs
\* on no child of a pageable node, with allowPaging set or not.
NoDescentIntoPaged ==
    \A n \in called : n = Root \/ Parent(n) \notin Pageable

\* a search for x, the child of P's first item p1, with maxDepth = 2 ran to
\* its end over P (depth 1) without finding x: p1 (depth 2) was never asked
NoDescentIntoPagedWitness ==
    /\ pc = "done"
    /\ opts.predicate = "x"
    /\ opts.maxDepth = 2
    /\ token # "cancelled"
    /\ "P" \in called
    /\ Parent("x") = "p1"
    /\ DepthOf("p1") <= opts.maxDepth
    /\ result = NoNode

\* C12: when a call made by the search throws or rejects (the predicate,
\* canTraverse, a node's getChildren, showMore), findNode resolves to
\* undefined; no such failure makes findNode reject.
SearchErrorsAreNotFound ==
    /\ pc # "rejected"
    /\ failed # "none" => (pc = "done" /\ result = NoNode)

\* a paging search ended because the getChildren of a paging round rejected
\* after its showMore had gone through
SearchErrorsAreNotFoundWitness ==
    /\ pc = "done"
    /\ failed = "getChildren"
    /\ showMores >= 1
    /\ result = NoNode

----------------------------------------------------------------------------
(***************************************************************************)
(* Properties of the change notifications                                  *)
(***************************************************************************)
\* the refreshNode call invoked node.refresh exactly when the node has one,
\* once and with the reset flag of the call
RefreshNodeDelegates ==
    rn.pc # "idle" =>
        rn.refreshed = IF rn.hasRefresh THEN <<rn.reset>> ELSE <<>>

\* C13 as stated: refreshNode(node, reset) calls node.refresh(reset) when the
\* node has a refresh operation; when that call resolves to true nothing is
\* notified, otherwise exactly one notification is emitted, scoped to that
\* node, and only after node.refresh has completed.
RefreshNodeNotifiesNode ==
    /\ RefreshNodeDelegates
    /\ rn.pc = "awaiting" => rn.fired = <<>>
    /\ (rn.pc = "done" /\ rn.outcome = "true") => rn.fired = <<>>
    /\ (rn.pc = "done" /\ (rn.outcome = "void" \/ ~rn.hasRefresh))
          => rn.fired = <<rn.node>>

\* C13 as amended: as above, but the one notification is scoped to the node
\* only when the node is not the root of the view; for the root it is the
\* whole-tree notification (empty payload).
RefreshNodeNotifiesOnce ==
    /\ RefreshNodeDelegates
    /\ rn.pc = "awaiting" => rn.fired = <<>>
    /\ (rn.pc = "done" /\ rn.outcome = "true") => rn.fired = <<>>
    /\ (rn.pc = "done" /\ (rn.outcome = "void" \/ ~rn.hasRefresh))
          => rn.fired = <<IF rn.node = root THEN NoNode ELSE rn.node>>

\* refreshNode on the root, whose refresh resolved to nothing, fired the
\* whole-tree notification; an earlier refreshNode on A fired A
RefreshNodeNotifiesOnceWitness ==
    /\ rn.pc = "done"
    /\ rn.node = Root
    /\ rn.hasRefresh
    /\ rn.outcome = "void"
    /\ rn.fired = <<NoNode>>
    /\ \E i \in 1..Len(events) : events[i] = "A"

\* C14: ViewBase.refresh(reset) invokes the root's refresh(reset) when there
\* is a root and it has one, and once that has completed (never before)
\* emits exactly one whole-tree notification, whatever the root's refresh
\* resolved to.
ViewRefreshNotifiesTree ==
    /\ vr.pc # "idle" =>
          vr.refreshed = IF vr.node # NoNode /\ vr.hasRefresh
                         THEN <<vr.reset>> ELSE <<>>
    /\ vr.pc = "awaiting" => vr.fired = <<>>
    /\ (vr.pc = "done" /\ vr.outcome # "threw") => vr.fired = <<NoNode>>

\* a refresh(true) whose root refresh resolved to true still fired the one
\* whole-tree notification
ViewRefreshNotifiesTreeWitness ==
    /\ vr.pc = "done"
    /\ vr.node = Root
    /\ vr.refreshed = <<TRUE>>
    /\ vr.outcome = "true"
    /\ vr.fired = <<NoNode>>

\* C15: no notification carries the root as payload: a change triggered for
\* the root or for no node is the whole-tree notification, a change
\* triggered for another node carries exactly that node.
NotificationsNeverCarryRoot ==
    /\ \A i \in 1..Len(events) : events[i] # Root
    /\ \A i \in 1..Len(rn.fired) :
          rn.fired[i] = IF rn.node \in {Root, NoNode} THEN NoNode ELSE rn.node
    /\ \A i \in 1..Len(vr.fired) : vr.fired[i] = NoNode

\* changes were triggered for the root (by a refreshNode without a refresh
\* operation), for no node and for A: the stream holds the whole-tree
\* payload and A
NotificationsNeverCarryRootWitness ==
    /\ rn.pc = "done"
    /\ rn.node = Root
    /\ ~rn.hasRefresh
    /\ rn.fired = <<NoNode>>
    /\ vr.fired = <<NoNode>>
    /\ \E i \in 1..Len(events) : events[i] = "A"

----------------------------------------------------------------------------
(***************************************************************************)
(* Properties of the id-to-limit map                                       *)
(***************************************************************************)
\* C16: once showMoreNodeChildren(node, limit) has completed, the map of the
\* view holds under node.id the limit the node has after its window grew,
\* and the entries of all other ids are as before; an entry only goes away
\* by resetNodeLastKnownLimit for its id.
LastKnownLimitRecorded ==
    /\ lk.op = "showMore" =>
          /\ lastKnownLimits[lk.node] = limit[lk.node]
          /\ limit[lk.node] >= 1
          /\ \A n \in Pageable \ {lk.node} : lastKnownLimits[n] = lk.before[n]
    /\ lk.op = "reset" =>
          \A n \in Pageable \ {lk.node} : lastKnownLimits[n] = lk.before[n]
    /\ lk.op = "none" => lastKnownLimits = lk.before

\* showMore on Q has just completed while the entry that an earlier showMore
\* on P left is still there; P's window is larger than Q's
LastKnownLimitRecordedWitness ==
    /\ lk.op = "showMore"
    /\ lk.node = "Q"
    /\ lastKnownLimits["Q"] = 2
    /\ lk.before["Q"] = 0
    /\ lastKnownLimits["P"] = 3

----------------------------------------------------------------------------
(***************************************************************************)
(* Properties of the subscription of RepositoriesNode                      *)
(***************************************************************************)
\* a step in which the node gets a subscription
Subscribes == subscription = "none" /\ subscription' = "live"

\* a getTreeItem step: it touches nothing but the subscription
GetTreeItemStep ==
    /\ last' = Idle
    /\ UNCHANGED <<children, pending, refreshing, disposed, returned>>

ConfigurationChangeTearsDown ==
    /\ (/\ last.op = "refresh"
        /\ resub.reason = "ConfigurationChanged"
        /\ resub.was = "live") => resub.torn
    /\ last.op = "dispose" => subscription = "none"

\* C19: once dispose() has been called the node never again has children or
\* a subscription.
DisposedIsTerminal ==
    disposed => (children = Undefined /\ subscription = "none")

----------------------------------------------------------------------------
(***************************************************************************)
(* Properties of the commits nodes                                         *)
(***************************************************************************)
\* C20: refresh(true) on a loaded node clears its cache (CommitsViewNode
\* disposes the children it drops), so that the next getChildren computes a
\* new generation of instances; refresh(false) leaves the cached instances
\* in place.
RefreshResetClearsCache ==
    /\ cvLast.op = "viewRefresh" =>
          IF cvLast.reset
          THEN /\ cvChildren = Undefined
               /\ cvLast.pre # Undefined =>
                     \A i \in Range(cvLast.pre) : cvNodes[i].disposeCalls >= 1
          ELSE cvChildren = cvLast.pre
    /\ cvLast.op = "repoRefresh" =>
          cvNodes[cvLast.node].child = IF cvLast.reset THEN 0 ELSE cvLast.preChild
    /\ cvLast.op = "viewGetChildren" =>
          CASE cvLast.outcome = "cached" ->
                  cvChildren = cvLast.pre /\ cvLast.pre # Undefined
            [] cvLast.outcome = "computed" ->
                  \A i \in Range(cvChildren) :
                      i > cvLast.count /\ cvNodes[i].disposeCalls = 0
            [] OTHER -> cvChildren = cvLast.pre
    /\ cvLast.op = "repoGetChildren" =>
          CASE cvLast.outcome = "cached" ->
                  cvNodes[cvLast.node].child = cvLast.preChild /\ cvLast.preChild # 0
            [] cvLast.outcome = "computed" ->
                  cvNodes[cvLast.node].child > cvLast.branches
            [] OTHER -> cvNodes[cvLast.node].child = cvLast.preChild

\* after a refresh(true) disposed the node of r1, getChildren computed a new
\* node for r1, and that node, reset in turn, has no BranchNode
RefreshResetClearsCacheWitness ==
    /\ cvLast.op = "repoRefresh"
    /\ cvLast.reset
    /\ cvLast.preChild # 0
    /\ \E j \in 1..Len(cvNodes) :
          /\ j < cvLast.node
          /\ cvNodes[j].repo = cvNodes[cvLast.node].repo
          /\ cvNodes[j].disposeCalls = 1

----------------------------------------------------------------------------
----------------------------------------------------------------------------
(***************************************************************************)
(* Properties of ViewBase as the host's data provider                      *)
(***************************************************************************)

\* C22: a failure of a node's getChildren, getTreeItem or refresh is caught
\* by the ViewBase operation that invoked it: getChildren and getTreeItem
\* hand the host a default value instead of the failure, and refresh and
\* refreshNode do not reject.
NodeFailuresStopAtTheView ==
    /\ host.nodeCall = "threw" => host.result = "default"
    /\ rn.outcome = "threw" => rn.settled # "rejected"
    /\ vr.outcome = "threw" => vr.settled # "rejected"

\* C23: reveal is best effort: it always resolves, whether the host's reveal
\* succeeded or failed; without a tree view the host's reveal is not called;
\* and no step of reveal changes the root, the limits, the tree view or the
\* notifications fired.
RevealIsBestEffort ==
    /\ [](rv.pc = "done" =>
            /\ rv.settled = "resolved"
            /\ rv.called = rv.hadTree)
    /\ [][rv' # rv =>
            /\ rv.hadTree => tree
            /\ UNCHANGED <<root, limit, lastKnownLimits, events, tree, host>>]_vars

RevealIsBestEffortWitness ==
    /\ rv.pc = "done"
    /\ rv.called
    /\ rv.outcome = "threw"
    /\ rv.settled = "resolved"

\* C24: a getChildren call that computes the children of CommitsViewNode
\* while another call has filled the cache during its fetch belongs to the
\* same generation: the cache it leaves is the one it found, and every node
\* constructed so far is either cached or disposed.
ConcurrentCallsShareOneGeneration ==
    (/\ cvLast.op = "viewGetChildren"
     /\ cvLast.outcome = "computed"
     /\ cvLast.pre # Undefined) =>
        /\ cvChildren = cvLast.pre
        /\ \A i \in 1..Len(cvNodes) :
              \/ i \in Range(cvChildren)
              \/ cvNodes[i].disposeCalls >= 1

----------------------------------------------------------------------------
(***************************************************************************)
(* Properties of the debounced subscription                                *)
(***************************************************************************)

----------------------------------------------------------------------------
(***************************************************************************)
(* Properties of the cached list of RepositoriesNode                       *)
(***************************************************************************)

\* C26: the collections have pairwise distinct keys, and after any sequence
\* of getChildren and refresh calls no two children of the cached list share
\* a key and no instance is in the list twice.
CachedChildrenAreDistinct ==
    children # Undefined =>
        \A i, j \in 1..Len(children) :
            i # j => /\ children[i] # children[j]
                     /\ nodes[children[i]].key # nodes[children[j]].key

CachedChildrenAreDistinctWitness ==
    /\ last.op = "refresh"
    /\ children # Undefined
    /\ Len(children) = 2
    /\ last.refreshed # {}
    /\ \E i \in 1..2 : children[i] \notin Range(last.pre)

----------------------------------------------------------------------------
(***************************************************************************)
(* Properties of the root                                                  *)
(***************************************************************************)

\* C27: the root is created lazily and only once: whatever getChildren,
\* findNode and refresh calls were made, the factory has been called once if
\* there is a root and never if there is none, plus once for every
\* ensureRoot(true) that replaced a root; so the calls after the first use
\* the instance in place.
RootCreatedOnce ==
    roots = (IF root = NoNode THEN 0 ELSE 1) + forced

RootCreatedOnceWitness ==
    /\ roots = 1
    /\ forced = 0
    /\ host.op = "getChildren" /\ host.node = "A"
    /\ vr.pc = "done" /\ vr.refreshed # <<>>

----------------------------------------------------------------------------
(***************************************************************************)
(* Properties of canTraverse and of the end of the search                  *)
(***************************************************************************)

RECURSIVE IsUnder(_, _)
IsUnder(n, b) == n = b \/ (n # Root /\ IsUnder(Parent(n), b))

\* C28: a node for which canTraverse is false is not asked for its children
\* and neither is any node below it, and no node below it is enqueued; the
\* node itself is still tested against the predicate first, so a search for
\* it that reaches its depth finds it.
BlockedSubtreeUntouched ==
    pc # "idle" =>
        /\ \A b \in opts.canTraverse.blocked, n \in TreeNodes :
              IsUnder(n, b) =>
                  /\ n \notin called
                  /\ n # b => n \notin Range(queue)
        /\ (/\ pc = "done"
            /\ failed = "none"
            /\ token # "cancelled"
            /\ opts.predicate \in opts.canTraverse.blocked
            /\ DepthOf(opts.predicate) <= opts.maxDepth) => result = opts.predicate

\* a search for q2 below the blocked A went on to P and ended without a
\* match: A was never asked for its children
BlockedSubtreeUntouchedWitness ==
    /\ pc = "done"
    /\ opts.canTraverse = [given |-> TRUE, blocked |-> {"A"}]
    /\ opts.predicate = "q2"
    /\ opts.allowPaging
    /\ opts.maxDepth = 2
    /\ token # "cancelled"
    /\ failed = "none"
    /\ "P" \in called
    /\ "A" \notin called
    /\ result = NoNode

\* C29: findNode terminates: a call that is in its loop or in a paging loop
\* reaches its return; while it runs the queue holds exactly one level
\* marker and depth never passes maxDepth + 1; and the call returns a node
\* of the tree or undefined.
FindNodeTerminates ==
    /\ [](pc # "idle" =>
            /\ Cardinality({i \in 1..Len(queue) : queue[i] = NoNode}) = 1
            /\ depth <= opts.maxDepth + 1)
    /\ [](pc = "done" => result \in TreeNodes \cup {NoNode})
    /\ (pc \in {"loop", "paging"}) ~> (pc = "done")

\* a search that ended because the queue held only the marker, after a
\* paging loop that ended with hasMore false
FindNodeTerminatesWitness ==
    /\ pc = "done"
    /\ failed = "none"
    /\ token # "cancelled"
    /\ queue = <<NoNode>>
    /\ depth <= opts.maxDepth
    /\ showMores >= 1
    /\ ~HasMore("P", limit)
    /\ result = NoNode

----------------------------------------------------------------------------
(***************************************************************************)
(* Properties of refresh over a cached placeholder                         *)
(***************************************************************************)

\* C30: refresh completes without error whatever the collections were, and
\* a refresh that fetched a non-empty collection leaves a cache of
\* RepositoryNodes only, also when the cache held the placeholder.
RefreshSurvivesPlaceholder ==
    last.op = "refresh" =>
        /\ last.outcome # "threw"
        /\ (children # Undefined /\ ~last.sawEmpty) =>
              \A i \in Range(children) : nodes[i].kind = "repository"

----------------------------------------------------------------------------
(***************************************************************************)
(* Properties of a refresh that overlaps dispose                           *)
(***************************************************************************)

\* C31: a refresh that was suspended in the fetch while dispose() cleared
\* the cache finishes without throwing, leaves the cache undefined and does
\* not subscribe the node again.
RefreshAfterDisposeIsQuiet ==
    (/\ last.op = "refresh"
     /\ last.outcome # "unloaded"
     /\ last.pre = Undefined) =>
        /\ last.outcome # "threw"
        /\ children = Undefined
        /\ ~resub.created

----------------------------------------------------------------------------
(***************************************************************************)
(* Properties relating refresh and the first load                          *)
(***************************************************************************)

KeysOf(ch, ns) == [i \in 1..Len(ch) |-> ns[ch[i]].key]

\* the keys, in order, of the children getChildren() loads first from S
FirstLoadKeys(S) ==
    LET loaded == LoadChildren(SortByIndex(S), [children |-> <<>>, nodes |-> <<>>])
    IN  KeysOf(loaded.children, loaded.nodes)

\* C32: after a refresh onto a collection S the keys of the cached children
\* are, in order, the keys a first getChildren() loading from S produces,
\* also when S holds closed repositories. The refresh takes the same step
\* for every collection with the keys and indexes it recorded, whichever of
\* them are closed, so the cache must equal the first load of each.
RefreshEqualsFirstLoad ==
    (last.op = "refresh" /\ last.outcome = "reconciled") =>
        \A S \in Collections :
            IndexOf(S) = last.index => KeysOf(children, nodes) = FirstLoadKeys(S)

----------------------------------------------------------------------------
(***************************************************************************)
(* Properties of the node findNode returns                                 *)
(***************************************************************************)

\* C33: the node a search returns satisfies the predicate when it is
\* returned, and it is the node the step dequeued or a child in the loaded
\* window of a pageable node the search has asked for its children.
ReturnedNodeMatches ==
    [][(result = NoNode /\ result' # NoNode) =>
          /\ Predicate(result')
          /\ \/ (Len(queue) > 0 /\ result' = Head(queue))
             \/ \E n \in Pageable \cap called' :
                   result' \in Range(GetChildren(n, limit'))]_vars

\* q2, beyond the first window of Q, was returned by a paging round
ReturnedNodeMatchesWitness ==
    /\ pc = "done"
    /\ result = "q2"
    /\ opts.predicate = "q2"
    /\ "Q" \in called
    /\ showMores >= 1
    /\ "q2" \in Range(GetChildren("Q", limit))
    /\ "q2" \notin Range(queue)

RECURSIVE Ancestors(_)
Ancestors(n) == IF n = Root THEN {} ELSE {Parent(n)} \cup Ancestors(Parent(n))

\* a child of a pageable node: tested with its parent, never dequeued
IsPagedChild(n) == n # Root /\ Parent(n) \in Pageable

\* the search of the call is allowed to reach m: every node above it is
\* traversable and within maxDepth, none above its parent is pageable, and m
\* is within maxDepth itself or, as the child of a pageable node, in the
\* window lim of its parent or reachable by paging
Allowed(m, lim) ==
    /\ \A a \in Ancestors(m) :
          /\ CanTraverse(a)
          /\ DepthOf(a) <= opts.maxDepth
          /\ a \in Pageable => a = Parent(m)
    /\ IF IsPagedChild(m)
       THEN opts.allowPaging \/ m \in Range(GetChildren(Parent(m), lim))
       ELSE DepthOf(m) <= opts.maxDepth

\* the level at which the search tests m: its own depth when it is dequeued,
\* the depth of its parent when it is the child of a pageable node
TestLevel(m) == IF IsPagedChild(m) THEN DepthOf(Parent(m)) ELSE DepthOf(m)

\* C34 as stated: when a search returns a node at depth d, no node that
\* satisfies the predicate and that the search was allowed to reach lies at
\* a depth smaller than d.
ResultIsShallowest ==
    [][(result = NoNode /\ result' # NoNode) =>
          \A m \in TreeNodes :
              (Predicate(m) /\ Allowed(m, limit')) => DepthOf(m) >= DepthOf(result')]_vars

\* C34 amended: when a search returns a node, no node that satisfies the
\* predicate and that the search was allowed to reach is tested at an earlier
\* level, where a dequeued node is tested at its own depth and a child of a
\* pageable node at the depth of its parent.
ResultIsEarliestTested ==
    [][(result = NoNode /\ result' # NoNode) =>
          \A m \in TreeNodes :
              (Predicate(m) /\ Allowed(m, limit')) => TestLevel(m) >= TestLevel(result')]_vars

\* E at depth 1 was returned although B at depth 2, below the first child of
\* the root, satisfies the predicate too and was within reach
ResultIsEarliestTestedWitness ==
    /\ pc = "done"
    /\ opts.predicate = "B|E"
    /\ opts.maxDepth = 2
    /\ Predicate("B") /\ Allowed("B", limit)
    /\ "A" \in called
    /\ result = "E"

\* C35: a search with allowPaging false calls showMore on no node and
\* leaves the limit of every node and the id-to-limit map of the view as
\* they were when the call began.
NoPagingWithoutAllowPaging ==
    (pc # "idle" /\ ~opts.allowPaging) =>
        /\ showMores = 0
        /\ limit = start.limit
        /\ lastKnownLimits = start.lastKnownLimits

\* a search for p3 without allowPaging asked P for its children, found p3
\* outside the window, left the window as it was and ended without a match
NoPagingWithoutAllowPagingWitness ==
    /\ pc = "done"
    /\ ~opts.allowPaging
    /\ opts.predicate = "p3"
    /\ failed = "none"
    /\ token # "cancelled"
    /\ "P" \in called
    /\ HasMore("P", limit)
    /\ "p3" \notin Range(GetChildren("P", limit))
    /\ result = NoNode

\* C36: every child a node drops from its cache on refresh(true) has been
\* disposed: after CommitsViewNode.refresh(true) each CommitsRepositoryNode
\* cached before the call has had dispose() called, and after
\* CommitsRepositoryNode.refresh(true) the BranchNode cached before the call
\* has had dispose() called
DroppedChildrenAreDisposed ==
    /\ (cvLast.op = "viewRefresh" /\ cvLast.reset /\ cvLast.pre # Undefined) =>
          \A i \in Range(cvLast.pre) : cvNodes[i].disposeCalls >= 1
    /\ (cvLast.op = "repoRefresh" /\ cvLast.reset /\ cvLast.preChild # 0) =>
          cvLast.preChild \in cvLast.disposed


\* C37: after ViewBase.dispose() the view holds no live resource: the tree
\* view and its listeners are disposed and, when a root has been
\* materialized, the root (and with it its nodes) is disposed; a run of
\* initialize leaves exactly the tree view and listeners it created live
DisposeLeavesNoLiveResource ==
    [][/\ disposable'.disposeCalls > disposable.disposeCalls =>
            /\ disposable'.live = 0
            /\ root' # NoNode => "root" \in disposable'.released
       /\ disposable'.created > disposable.created => disposable'.live = 1]_vars


\* C38: a GitExplorer getChildren call that begins while root loads are in
\* flight reads _root only after the result of each of them has been
\* assigned to _root, and no getChildren call returns the children of a
\* root after a load that completed since the call read it has replaced it
GetChildrenWaitsForRootLoads ==
    \A c \in 1..Len(geCalls) :
        /\ geCalls[c].pc \in {"read", "returned"} => geCalls[c].missed = {}
        /\ (geCalls[c].pc = "returned" /\ geCalls[c].read # 0) =>
              geCalls[c].completed = {}

\* C39: a call of _updateBlameability without force fires only when its
\* value differs from the value of the update before it, so of two
\* consecutive non-forced calls with the same value at most one fires
BlameabilityFiresOnChange ==
    \A i \in 2..Len(updates) :
        (~updates[i].force /\ updates[i].fired) =>
            /\ updates[i].blameable # updates[i - 1].blameable
            /\ ~(/\ ~updates[i - 1].force /\ updates[i - 1].fired
                 /\ updates[i - 1].blameable = updates[i].blameable)

====
